---- MODULE Spec2Model ----
(***************************************************************************)
(* Model of tsl::ordered_map (src/src/ordered_map.h): an insertion-ordered *)
(* hash map.  The values live in a dense sequence m_values; m_buckets is   *)
(* an open-addressed Robin Hood index whose cells hold a position into     *)
(* m_values and the truncated hash of the key stored there.                *)
(*                                                                         *)
(* Positions, bucket numbers and iterators are 0-based as in the source;   *)
(* TLA+ sequences are 1-based, so cell i of an array a is a[i + 1].        *)
(* An iterator is the distance from begin(); end() is size().              *)
(***************************************************************************)
EXTENDS Integers, Sequences, FiniteSets, TLC

(***************************************************************************)
(* Bounds of the model.                                                    *)
(***************************************************************************)
\* Keys are 1..NumKeys.
NumKeys == 3
\* No insert is called once the map holds MaxSize elements.
MaxSize == 3
\* No constructor, rehash, reserve or growth asks for more buckets than this.
MaxBucketCount == 8
\* Width of bucket_entry::index_type (std::uint_least32_t in the source).
IndexBits == 8
\* Width of bucket_entry::truncated_hash_type (std::uint_least32_t in the
\* source, against a wider std::size_t hash).
TruncBits == 3

Keys == 1 .. NumKeys

(***************************************************************************)
(* Program constants.                                                      *)
(***************************************************************************)
NB_RESERVED_INDEXES == 1
REHASH_ON_HIGH_NB_PROBES__NPROBES == 128
\* Load factors are kept in hundredths: 0.9f is 90, 0.15f is 15.
DEFAULT_MAX_LOAD_FACTOR == 90
REHASH_ON_HIGH_NB_PROBES__MIN_LOAD_FACTOR == 15
\* The load factors max_load_factor(ml) is called with.
LoadFactors == {50, DEFAULT_MAX_LOAD_FACTOR}

(***************************************************************************)
(* Bit operations on naturals.                                             *)
(***************************************************************************)
RECURSIVE BitAnd(_, _)
BitAnd(a, b) ==
    IF a = 0 \/ b = 0 THEN 0
    ELSE (a % 2) * (b % 2) + 2 * BitAnd(a \div 2, b \div 2)

RECURSIVE BitOr(_, _)
BitOr(a, b) ==
    IF a = 0 THEN b
    ELSE IF b = 0 THEN a
    ELSE (IF a % 2 = 1 \/ b % 2 = 1 THEN 1 ELSE 0) + 2 * BitOr(a \div 2, b \div 2)

\* value >> i for the small values the model holds.
ShiftRight(value, i) == IF i >= 30 THEN 0 ELSE value \div (2 ^ i)

(***************************************************************************)
(* bucket_entry                                                            *)
(***************************************************************************)
EMPTY_MARKER_INDEX == 2 ^ IndexBits - 1

bucket_entry == [m_index |-> EMPTY_MARKER_INDEX, m_hash |-> 0]

empty(bucket) == bucket.m_index = EMPTY_MARKER_INDEX

\* clear() resets the index only; m_hash keeps its old content.
clear_bucket(bucket) == [bucket EXCEPT !.m_index = EMPTY_MARKER_INDEX]

truncate_hash(hash) == hash % (2 ^ TruncBits)

\* A max_size() that leaves out the empty marker alone.
bucket_max_size_but_marker == EMPTY_MARKER_INDEX

\* bucket_entry::max_size()
bucket_max_size == EMPTY_MARKER_INDEX - NB_RESERVED_INDEXES

(***************************************************************************)
(* The pluggable Hash, four of them.  Under "neighbours" and "apart", keys  *)
(* 1 and 2 share their truncated hash and so do keys 3 and 4.  Under       *)
(* "neighbours" the two pairs start in neighbouring buckets, and in the    *)
(* last buckets of a two- or four-bucket array, so that chains collide,    *)
(* displace each other and wrap around.  Under "apart" one bucket lies     *)
(* between the two pairs, so that a value at its initial bucket comes      *)
(* right after a displaced one.  Under "chain" the keys of the model start *)
(* in bucket 0 and every other key in bucket 1, so that the other keys     *)
(* make one long chain which a key of the model displaces.  Under "high"   *)
(* the hashes of the keys follow one another and have the bit set that is  *)
(* just above the truncated hash.                                          *)
(***************************************************************************)
Hashes == {"neighbours", "apart"}

Hash(hash, key) ==
    IF hash = "chain" THEN (IF key <= NumKeys THEN 0 ELSE 1)
    ELSE IF hash = "high" THEN 2 ^ TruncBits + key - 1
    ELSE IF hash = "neighbours"
    THEN CASE key = 1 -> 2
           [] key = 2 -> 10
           [] key = 3 -> 3
           [] key = 4 -> 11
           [] OTHER -> (7 * key) % 16
    ELSE CASE key = 1 -> 2
           [] key = 2 -> 10
           [] key = 3 -> 4
           [] key = 4 -> 12
           [] OTHER -> (5 * key) % 16

compare_keys(key1, key2) == key1 = key2

(***************************************************************************)
(* ordered_hash: the table is a record of the members of the class.        *)
(***************************************************************************)
size(t) == Len(t.m_values)

bucket_count(t) == Len(t.m_buckets)

\* hash_key(t, key): Hash::operator()(key), the table is its own Hash.
hash_key(t, key) == Hash(t.Hash, key)

Min(a, b) == IF a <= b THEN a ELSE b

\* max_size(): the lesser of what a bucket can index and of
\* m_values.max_size(), which the allocator of the table sets.
max_size(t) == Min(bucket_max_size, t.m_values_max_size)

Bucket(t, ibucket) == t.m_buckets[ibucket + 1]

\* KeySelect()(m_values[index]).  Reading past the end of m_values is
\* undefined behaviour: the read yields garbage, whatever key (or none, 0)
\* happens to be there.
KeyAt(t, index, garbage) ==
    IF index < size(t) THEN t.m_values[index + 1].first ELSE garbage

bucket_for_hash(t, hash) == BitAnd(hash, t.m_mask)

next_bucket(t, index) ==
    IF index + 1 < bucket_count(t) THEN index + 1 ELSE 0

dist_from_initial_bucket(t, ibucket) ==
    LET initial_bucket == bucket_for_hash(t, Bucket(t, ibucket).m_hash)
    IN  IF ibucket >= initial_bucket
        THEN ibucket - initial_bucket
        ELSE (bucket_count(t) + ibucket) - initial_bucket

is_power_of_two(value) == value /= 0 /\ BitAnd(value, value - 1) = 0

RECURSIVE smear_bits(_, _)
smear_bits(value, i) ==
    IF i >= 64 THEN value
    ELSE smear_bits(BitOr(value, ShiftRight(value, i)), i * 2)

\* round_up_to_power_of_two without the case of 0: --value wraps around and
\* value + 1 is 0.
round_up_to_power_of_two_wraps(value) ==
    IF is_power_of_two(value) THEN value
    ELSE IF value = 0 THEN 0
    ELSE smear_bits(value - 1, 1) + 1

round_up_to_power_of_two(value) ==
    IF is_power_of_two(value) THEN value
    ELSE IF value = 0 THEN 1
    ELSE smear_bits(value - 1, 1) + 1

\* max_load_factor(float ml): no range check, no rehash.
set_max_load_factor(t, ml) ==
    [t EXCEPT !.m_max_load_factor = ml,
              !.m_load_threshold = (bucket_count(t) * ml) \div 100,
              !.m_min_load_factor_rehash_threshold =
                  (bucket_count(t) * REHASH_ON_HIGH_NB_PROBES__MIN_LOAD_FACTOR) \div 100]

\* ordered_hash(bucket_count, hash, equal, alloc, max_load_factor)
ordered_hash(count, hash, alloc, ml) ==
    LET n == round_up_to_power_of_two(count)
    IN  set_max_load_factor(
            [Hash |-> hash,
             m_values_max_size |-> alloc,
             m_buckets |-> [i \in 1 .. n |-> bucket_entry],
             m_mask |-> n - 1,
             m_values |-> << >>,
             m_grow_on_next_insert |-> FALSE,
             m_max_load_factor |-> ml,
             m_load_threshold |-> 0,
             m_min_load_factor_rehash_threshold |-> 0],
            ml)

\* The place m_buckets.end() takes in the model: no bucket.
buckets_end(t) == bucket_count(t)

(***************************************************************************)
(* The loops of the table.  A loop is the operator of its body, which      *)
(* takes the state st of the loop to the state after one iteration and     *)
(* sets st.done when the loop ends; c holds what the loop does not change. *)
(* The operator of the loop runs at most n iterations, a half of them and  *)
(* then the rest: a table has hundreds of buckets where a probe sequence   *)
(* longer than REHASH_ON_HIGH_NB_PROBES__NPROBES is to be followed, and    *)
(* TLC evaluates a recursion on a stack that does not hold one level for   *)
(* each iteration.  The state after the first half is bound to a name, so  *)
(* that it is computed once.                                               *)
(***************************************************************************)
\* The body of find_key's loop with a test that compares the keys only, not
\* the truncated hashes.
find_key_step_by_key(c, st) ==
    IF empty(Bucket(c.t, st.ibucket))
    THEN [st EXCEPT !.it = buckets_end(c.t), !.done = TRUE]
    ELSE IF compare_keys(c.key, KeyAt(c.t, Bucket(c.t, st.ibucket).m_index, c.garbage))
    THEN [st EXCEPT !.it = st.ibucket, !.done = TRUE]
    ELSE IF st.dist_from_init_bucket > dist_from_initial_bucket(c.t, st.ibucket)
    THEN [st EXCEPT !.it = buckets_end(c.t), !.done = TRUE]
    ELSE [st EXCEPT !.ibucket = next_bucket(c.t, @), !.dist_from_init_bucket = @ + 1]

\* The body of find_key's loop.
find_key_step(c, st) ==
    IF empty(Bucket(c.t, st.ibucket))
    THEN [st EXCEPT !.it = buckets_end(c.t), !.done = TRUE]
    ELSE IF /\ Bucket(c.t, st.ibucket).m_hash = truncate_hash(c.hash)
            /\ compare_keys(c.key, KeyAt(c.t, Bucket(c.t, st.ibucket).m_index, c.garbage))
    THEN [st EXCEPT !.it = st.ibucket, !.done = TRUE]
    ELSE IF st.dist_from_init_bucket > dist_from_initial_bucket(c.t, st.ibucket)
    THEN [st EXCEPT !.it = buckets_end(c.t), !.done = TRUE]
    ELSE [st EXCEPT !.ibucket = next_bucket(c.t, @), !.dist_from_init_bucket = @ + 1]

RECURSIVE find_key_loop(_, _, _)
find_key_loop(c, st, n) ==
    IF st.done \/ n = 0 THEN st
    ELSE IF n = 1 THEN find_key_step(c, st)
    ELSE CHOOSE after \in {find_key_loop(c, half, n - n \div 2) :
                              half \in {find_key_loop(c, st, n \div 2)}} : TRUE

\* The loop of find_key from a bucket on.  dist_from_init_bucket grows with
\* every iteration and is above every distance of the table after
\* bucket_count() iterations: the loop ends.
find_key_from(t, key, hash, ibucket, dist_from_init_bucket, garbage) ==
    find_key_loop([t |-> t, key |-> key, hash |-> hash, garbage |-> garbage],
            [ibucket |-> ibucket, dist_from_init_bucket |-> dist_from_init_bucket,
             it |-> buckets_end(t), done |-> FALSE],
            bucket_count(t) + 1).it

\* Returns the bucket which has the key, or buckets_end(t) if none.
find_key(t, key, hash, garbage) ==
    find_key_from(t, key, hash, bucket_for_hash(t, hash), 0, garbage)

\* find(key, hash): the iterator to the value, end() if there is none.
find_hash(t, key, hash, garbage) ==
    LET it_bucket == find_key(t, key, hash, garbage)
    IN  IF it_bucket /= buckets_end(t) THEN Bucket(t, it_bucket).m_index ELSE size(t)

find(t, key, garbage) == find_hash(t, key, hash_key(t, key), garbage)

(***************************************************************************)
(* rehash_impl                                                             *)
(***************************************************************************)
\* The body of the probe loop that places one old bucket's (index, hash) in
\* the new array.
rehash_place_step(c, st) ==
    IF empty(Bucket(st.t, st.ibucket))
    THEN [st EXCEPT !.t = [st.t EXCEPT !.m_buckets[st.ibucket + 1] =
                               [m_index |-> st.insert_index_,
                                m_hash |-> truncate_hash(st.insert_hash)]],
                    !.done = TRUE]
    ELSE LET distance == dist_from_initial_bucket(st.t, st.ibucket)
         IN  IF st.dist_from_init_bucket > distance
             THEN [t |-> [st.t EXCEPT !.m_buckets[st.ibucket + 1] =
                              [m_index |-> st.insert_index_, m_hash |-> st.insert_hash]],
                   ibucket |-> next_bucket(st.t, st.ibucket),
                   dist_from_init_bucket |-> distance + 1,
                   insert_index_ |-> Bucket(st.t, st.ibucket).m_index,
                   insert_hash |-> Bucket(st.t, st.ibucket).m_hash,
                   done |-> FALSE]
             ELSE [st EXCEPT !.ibucket = next_bucket(st.t, @),
                             !.dist_from_init_bucket = @ + 1]

RECURSIVE rehash_place_loop(_, _, _)
rehash_place_loop(c, st, n) ==
    IF st.done \/ n = 0 THEN st
    ELSE IF n = 1 THEN rehash_place_step(c, st)
    ELSE CHOOSE after \in {rehash_place_loop(c, half, n - n \div 2) :
                              half \in {rehash_place_loop(c, st, n \div 2)}} : TRUE

\* The probe loop that places one old bucket's (index, hash) in the new
\* array.  It ends at an empty bucket, which rehash_impl_ends says there is.
rehash_place(t, ibucket, dist_from_init_bucket, insert_index_, insert_hash) ==
    rehash_place_loop(<< >>,
            [t |-> t, ibucket |-> ibucket, dist_from_init_bucket |-> dist_from_init_bucket,
             insert_index_ |-> insert_index_, insert_hash |-> insert_hash, done |-> FALSE],
            bucket_count(t)).t

\* The body of the loop over old_buckets, at old bucket number st.i.
rehash_old_buckets_step(c, st) ==
    IF st.i >= Len(c.old_buckets) THEN [st EXCEPT !.done = TRUE]
    ELSE IF empty(c.old_buckets[st.i + 1]) THEN [st EXCEPT !.i = @ + 1]
    ELSE [st EXCEPT !.t = rehash_place(st.t,
                                       bucket_for_hash(st.t, c.old_buckets[st.i + 1].m_hash),
                                       0, c.old_buckets[st.i + 1].m_index,
                                       c.old_buckets[st.i + 1].m_hash),
                    !.i = @ + 1]

RECURSIVE rehash_old_buckets_loop(_, _, _)
rehash_old_buckets_loop(c, st, n) ==
    IF st.done \/ n = 0 THEN st
    ELSE IF n = 1 THEN rehash_old_buckets_step(c, st)
    ELSE CHOOSE after \in {rehash_old_buckets_loop(c, half, n - n \div 2) :
                              half \in {rehash_old_buckets_loop(c, st, n \div 2)}} : TRUE

\* The loop over old_buckets, from old bucket number i on.
rehash_old_buckets(t, old_buckets, i) ==
    rehash_old_buckets_loop([old_buckets |-> old_buckets],
            [t |-> t, i |-> i, done |-> FALSE], Len(old_buckets) + 1).t

\* The loop that places an old bucket ends at an empty bucket of the new
\* array: with more old buckets in use than the new array has, it never ends.
rehash_impl_ends(t, count) ==
    \/ round_up_to_power_of_two(count) = bucket_count(t)
    \/ Cardinality({i \in 1 .. bucket_count(t) : ~empty(t.m_buckets[i])})
           <= round_up_to_power_of_two(count)

\* rehash_impl without the loop over old_buckets.
rehash_impl_forgets(t, count) ==
    LET n == round_up_to_power_of_two(count)
    IN  IF n = bucket_count(t) THEN t
        ELSE set_max_load_factor(
                 [t EXCEPT !.m_buckets = [i \in 1 .. n |-> bucket_entry],
                           !.m_mask = n - 1,
                           !.m_grow_on_next_insert = FALSE],
                 t.m_max_load_factor)

rehash_impl(t, count) ==
    LET n == round_up_to_power_of_two(count)
    IN  IF n = bucket_count(t) THEN t
        ELSE LET fresh == set_max_load_factor(
                              [t EXCEPT !.m_buckets = [i \in 1 .. n |-> bucket_entry],
                                        !.m_mask = n - 1,
                                        !.m_grow_on_next_insert = FALSE],
                              t.m_max_load_factor)
             IN  rehash_old_buckets(fresh, t.m_buckets, 0)

\* std::ceil(float(count) / max_load_factor()), the load factor in hundredths.
ceil_div_load_factor(count, ml) == (count * 100 + ml - 1) \div ml

Max(a, b) == IF a >= b THEN a ELSE b

\* The bucket count rehash(count) asks rehash_impl for.
rehash_count(t, count) ==
    Max(count, ceil_div_load_factor(size(t), t.m_max_load_factor))

rehash(t, count) == rehash_impl(t, rehash_count(t, count))

rehash_ends(t, count) == rehash_impl_ends(t, rehash_count(t, count))

\* The bucket count reserve(count) asks rehash for.
\* The count of reserve that leaves the load factor out.
reserve_count_plain(t, count) == count

reserve_count(t, count) == ceil_div_load_factor(count, t.m_max_load_factor)

reserve(t, count) == rehash(t, reserve_count(t, count))

reserve_ends(t, count) == rehash_ends(t, reserve_count(t, count))

(***************************************************************************)
(* A call ends in one of these ways: it returns, throws std::length_error  *)
(* or std::out_of_range, or:  "diverges": a loop of the call never         *)
(* ends.  "undefined": the call writes through an iterator that is out of  *)
(* range, after which the build may do anything; the model does not follow *)
(* a behaviour through such a call.                                        *)
(***************************************************************************)
Outcomes == {"returns", "length_error", "out_of_range", "runtime_error", "diverges",
             "undefined"}

HasEmptyBucket(t) == \E i \in 1 .. bucket_count(t) : empty(t.m_buckets[i])

HoldsIndex(t, index) == \E i \in 1 .. bucket_count(t) : t.m_buckets[i].m_index = index

(***************************************************************************)
(* insert                                                                  *)
(***************************************************************************)
\* The body of insert_index's loop.
insert_index_step(c, st) ==
    IF empty(Bucket(st.t, st.ibucket))
    THEN [st EXCEPT !.t = [st.t EXCEPT !.m_buckets[st.ibucket + 1] =
                               [m_index |-> st.index_insert,
                                m_hash |-> truncate_hash(st.hash_insert)]],
                    !.done = TRUE]
    ELSE LET distance == dist_from_initial_bucket(st.t, st.ibucket)
             swap == st.dist_from_init_bucket > distance
             dist == (IF swap THEN distance ELSE st.dist_from_init_bucket) + 1
             swapped == IF swap
                        THEN [st.t EXCEPT !.m_buckets[st.ibucket + 1] =
                                  [m_index |-> st.index_insert, m_hash |-> st.hash_insert]]
                        ELSE st.t
             flagged == IF /\ dist > REHASH_ON_HIGH_NB_PROBES__NPROBES
                           /\ size(st.t) >= st.t.m_min_load_factor_rehash_threshold
                        THEN [swapped EXCEPT !.m_grow_on_next_insert = TRUE]
                        ELSE swapped
         IN  [t |-> flagged,
              ibucket |-> next_bucket(st.t, st.ibucket),
              dist_from_init_bucket |-> dist,
              index_insert |-> IF swap THEN Bucket(st.t, st.ibucket).m_index
                               ELSE st.index_insert,
              hash_insert |-> IF swap THEN Bucket(st.t, st.ibucket).m_hash
                              ELSE st.hash_insert,
              done |-> FALSE]

RECURSIVE insert_index_loop(_, _, _)
insert_index_loop(c, st, n) ==
    IF st.done \/ n = 0 THEN st
    ELSE IF n = 1 THEN insert_index_step(c, st)
    ELSE CHOOSE after \in {insert_index_loop(c, half, n - n \div 2) :
                              half \in {insert_index_loop(c, st, n \div 2)}} : TRUE

\* Called with a table that has an empty bucket (the loop ends at one).
insert_index(t, ibucket, dist_from_init_bucket, index_insert, hash_insert) ==
    insert_index_loop(<< >>,
            [t |-> t, ibucket |-> ibucket, dist_from_init_bucket |-> dist_from_init_bucket,
             index_insert |-> index_insert, hash_insert |-> hash_insert, done |-> FALSE],
            bucket_count(t)).t

\* grow_on_high_load that does not look at m_grow_on_next_insert.
grow_on_high_load_unflagged(t) ==
    IF size(t) >= t.m_load_threshold
    THEN [t |-> [rehash_impl(t, bucket_count(t) * 2) EXCEPT !.m_grow_on_next_insert = FALSE],
          rehashed |-> TRUE]
    ELSE [t |-> t, rehashed |-> FALSE]

\* grow_on_high_load that waits until size() is above the threshold.
grow_on_high_load_late(t) ==
    IF t.m_grow_on_next_insert \/ size(t) > t.m_load_threshold
    THEN [t |-> [rehash_impl(t, bucket_count(t) * 2) EXCEPT !.m_grow_on_next_insert = FALSE],
          rehashed |-> TRUE]
    ELSE [t |-> t, rehashed |-> FALSE]

\* Return rehashed = TRUE if the map has been rehashed.
grow_on_high_load(t) ==
    IF t.m_grow_on_next_insert \/ size(t) >= t.m_load_threshold
    THEN [t |-> [rehash_impl(t, bucket_count(t) * 2) EXCEPT !.m_grow_on_next_insert = FALSE],
          rehashed |-> TRUE]
    ELSE [t |-> t, rehashed |-> FALSE]

\* The body of the probe loop of insert_impl.
insert_probe_step(c, st) ==
    IF /\ ~empty(Bucket(c.t, st.ibucket))
       /\ st.dist <= dist_from_initial_bucket(c.t, st.ibucket)
    THEN IF /\ Bucket(c.t, st.ibucket).m_hash = truncate_hash(c.hash)
            /\ compare_keys(c.key, KeyAt(c.t, Bucket(c.t, st.ibucket).m_index, c.garbage))
         THEN [st EXCEPT !.found = TRUE, !.done = TRUE]
         ELSE [st EXCEPT !.ibucket = next_bucket(c.t, @), !.dist = @ + 1]
    ELSE [st EXCEPT !.done = TRUE]

RECURSIVE insert_probe_loop(_, _, _)
insert_probe_loop(c, st, n) ==
    IF st.done \/ n = 0 THEN st
    ELSE IF n = 1 THEN insert_probe_step(c, st)
    ELSE CHOOSE after \in {insert_probe_loop(c, half, n - n \div 2) :
                              half \in {insert_probe_loop(c, st, n \div 2)}} : TRUE

\* The probe of insert_impl: where it stops, and the bucket of the key if it
\* met it.  The loop ends as that of find_key does.
insert_probe(t, key, hash, ibucket, dist_from_init_bucket, garbage) ==
    LET st == insert_probe_loop(
                  [t |-> t, key |-> key, hash |-> hash, garbage |-> garbage],
                  [ibucket |-> ibucket, dist |-> dist_from_init_bucket,
                   found |-> FALSE, done |-> FALSE],
                  bucket_count(t) + 1)
    IN  [found |-> st.found, ibucket |-> st.ibucket, dist |-> st.dist]

\* insert_impl when the probe has not met the key: the size check, the
\* growth, the new value at the end of m_values and its bucket.
insert_impl_new(t, key, value, hash, probe) ==
    IF size(t) >= max_size(t)
    THEN [t |-> t, it |-> size(t), inserted |-> FALSE, outcome |-> "length_error"]
    ELSE LET grown == grow_on_high_load(t)
             ibucket == IF grown.rehashed THEN bucket_for_hash(grown.t, hash)
                        ELSE probe.ibucket
             dist == IF grown.rehashed THEN 0 ELSE probe.dist
             pushed == [grown.t EXCEPT !.m_values =
                            Append(@, [first |-> key, second |-> value])]
         IN  IF ~HasEmptyBucket(pushed)
             THEN [t |-> t, it |-> size(t), inserted |-> FALSE, outcome |-> "diverges"]
             ELSE [t |-> insert_index(pushed, ibucket, dist, size(pushed) - 1,
                                      truncate_hash(hash)),
                   it |-> size(pushed) - 1, inserted |-> TRUE, outcome |-> "returns"]

\* insert_impl that assigns the value to the key it meets.
insert_impl_assigns(t, key, value, garbage) ==
    LET hash == hash_key(t, key)
        probe == insert_probe(t, key, hash, bucket_for_hash(t, hash), 0, garbage)
        index == Bucket(t, probe.ibucket).m_index
    IN  IF probe.found
        THEN [t |-> IF index < size(t)
                    THEN [t EXCEPT !.m_values[index + 1].second = value] ELSE t,
              it |-> index, inserted |-> FALSE, outcome |-> "returns"]
        ELSE insert_impl_new(t, key, value, hash, probe)

\* insert_impl that grows the bucket array before it probes for the key.
insert_impl_grows_first(t, key, value, garbage) ==
    LET hash == hash_key(t, key)
        grown == grow_on_high_load(t).t
        probe == insert_probe(grown, key, hash, bucket_for_hash(grown, hash), 0, garbage)
    IN  IF probe.found
        THEN [t |-> grown, it |-> Bucket(grown, probe.ibucket).m_index,
              inserted |-> FALSE, outcome |-> "returns"]
        ELSE insert_impl_new(grown, key, value, hash, probe)

\* insert_impl that looks at the size before it probes for the key.
insert_impl_checks_first(t, key, value, garbage) ==
    LET hash == hash_key(t, key)
        probe == insert_probe(t, key, hash, bucket_for_hash(t, hash), 0, garbage)
    IN  IF size(t) >= max_size(t)
        THEN [t |-> t, it |-> size(t), inserted |-> FALSE, outcome |-> "length_error"]
        ELSE IF probe.found
        THEN [t |-> t, it |-> Bucket(t, probe.ibucket).m_index, inserted |-> FALSE,
              outcome |-> "returns"]
        ELSE insert_impl_new(t, key, value, hash, probe)

\* insert_impl(key, value_type_args...): the table after the call, the
\* iterator and the flag it returns.
insert_impl(t, key, value, garbage) ==
    LET hash == hash_key(t, key)
        probe == insert_probe(t, key, hash, bucket_for_hash(t, hash), 0, garbage)
    IN  IF probe.found
        THEN [t |-> t, it |-> Bucket(t, probe.ibucket).m_index, inserted |-> FALSE,
              outcome |-> "returns"]
        ELSE insert_impl_new(t, key, value, hash, probe)

\* insert(P&& value)
insert(t, key, value, garbage) == insert_impl(t, key, value, garbage)

\* emplace(args...) is insert(value_type(args...)).
emplace(t, key, value, garbage) == insert(t, key, value, garbage)

\* try_emplace(key, value_args...)
try_emplace(t, key, value, garbage) == insert_impl(t, key, value, garbage)

\* insert_or_assign that leaves the mapped value of a key it meets.
insert_or_assign_keeps(t, key, value, garbage) == try_emplace(t, key, value, garbage)

\* insert_or_assign(key, value)
insert_or_assign(t, key, value, garbage) ==
    LET it == try_emplace(t, key, value, garbage)
    IN  IF it.outcome = "returns" /\ ~it.inserted
        THEN IF it.it < size(it.t)
             THEN [it EXCEPT !.t.m_values[it.it + 1].second = value]
             ELSE [it EXCEPT !.outcome = "undefined"]
        ELSE it

(***************************************************************************)
(* erase                                                                   *)
(***************************************************************************)
SwapBuckets(t, i, j) ==
    [t EXCEPT !.m_buckets[i + 1] = Bucket(t, j), !.m_buckets[j + 1] = Bucket(t, i)]

\* The loop of backward_shift, the empty bucket being previous_ibucket.
RECURSIVE backward_shift_from(_, _, _)
backward_shift_from(t, previous_ibucket, current_ibucket) ==
    IF /\ ~empty(Bucket(t, current_ibucket))
       /\ dist_from_initial_bucket(t, current_ibucket) > 0
    THEN backward_shift_from(SwapBuckets(t, current_ibucket, previous_ibucket),
                             current_ibucket, next_bucket(t, current_ibucket))
    ELSE t

\* backward_shift that leaves the buckets where they are.
backward_shift_none(t, empty_ibucket) == t

backward_shift(t, empty_ibucket) ==
    backward_shift_from(t, empty_ibucket, next_bucket(t, empty_ibucket))

\* The while loop of shift_indexes_left_in_buckets: the bucket whose index is
\* the wanted one, walking from ibucket.  Called when some bucket holds it.
RECURSIVE shift_walk(_, _, _)
shift_walk(t, ibucket, wanted) ==
    IF Bucket(t, ibucket).m_index /= wanted
    THEN shift_walk(t, next_bucket(t, ibucket), wanted)
    ELSE ibucket

\* The for loop of shift_indexes_left_in_buckets, from value number ivalue on.
RECURSIVE shift_indexes_from(_, _, _)
shift_indexes_from(t, ivalue, delta) ==
    IF ivalue >= size(t) THEN [t |-> t, outcome |-> "returns"]
    ELSE IF ~HoldsIndex(t, ivalue + delta) THEN [t |-> t, outcome |-> "diverges"]
    ELSE LET ibucket == shift_walk(t,
                            bucket_for_hash(t, hash_key(t, t.m_values[ivalue + 1].first)),
                            ivalue + delta)
         IN  shift_indexes_from(
                 [t EXCEPT !.m_buckets[ibucket + 1].m_index = @ - delta],
                 ivalue + 1, delta)

\* shift_indexes_left_in_buckets that leaves the indexes as they are.
shift_indexes_left_in_buckets_none(t, from_ivalue, delta) ==
    [t |-> t, outcome |-> "returns"]

shift_indexes_left_in_buckets(t, from_ivalue, delta) ==
    shift_indexes_from(t, from_ivalue, delta)

\* The sequence without its element number index (0-based).
EraseAt(values, index) ==
    [i \in 1 .. Len(values) - 1 |-> IF i <= index THEN values[i] ELSE values[i + 1]]

\* The sequence without its elements number first .. last - 1 (0-based).
EraseRange(values, first, last) ==
    [i \in 1 .. Len(values) - (last - first) |->
        IF i <= first THEN values[i] ELSE values[i + (last - first)]]

erase_value_from_bucket(t, it_bucket) ==
    LET index == Bucket(t, it_bucket).m_index
    IN  IF index >= size(t) THEN [t |-> t, outcome |-> "undefined"]
        ELSE LET erased == [t EXCEPT !.m_values = EraseAt(@, index)]
                 shifted == IF index /= size(erased)
                            THEN shift_indexes_left_in_buckets(erased, index, 1)
                            ELSE [t |-> erased, outcome |-> "returns"]
             IN  IF shifted.outcome /= "returns" THEN [t |-> t, outcome |-> shifted.outcome]
                 ELSE [t |-> backward_shift(
                                 [shifted.t EXCEPT !.m_buckets[it_bucket + 1] =
                                                       clear_bucket(@)],
                                 it_bucket),
                       outcome |-> "returns"]

\* erase_impl that frees the bucket of the key and leaves its value in m_values.
erase_impl_keeps_value(t, key, hash, garbage) ==
    LET it_bucket == find_key(t, key, hash, garbage)
    IN  IF it_bucket /= buckets_end(t)
        THEN [t |-> backward_shift([t EXCEPT !.m_buckets[it_bucket + 1] = clear_bucket(@)],
                                   it_bucket),
              outcome |-> "returns", ret |-> 1]
        ELSE [t |-> t, outcome |-> "returns", ret |-> 0]

\* erase(key, hash) and erase_impl(key, hash): ret is the number of values erased.
erase_impl(t, key, hash, garbage) ==
    LET it_bucket == find_key(t, key, hash, garbage)
    IN  IF it_bucket /= buckets_end(t)
        THEN LET erased == erase_value_from_bucket(t, it_bucket)
             IN  [t |-> erased.t, outcome |-> erased.outcome, ret |-> 1]
        ELSE [t |-> t, outcome |-> "returns", ret |-> 0]

erase_key(t, key, garbage) == erase_impl(t, key, hash_key(t, key), garbage)

\* erase(const_iterator pos), pos /= cend(): ret is the iterator returned.
erase_pos(t, pos, garbage) ==
    LET key == t.m_values[pos + 1].first
        it_bucket == find_key(t, key, hash_key(t, key), garbage)
    IN  IF it_bucket = buckets_end(t) THEN [t |-> t, outcome |-> "undefined", ret |-> pos]
        ELSE LET erased == erase_value_from_bucket(t, it_bucket)
             IN  [t |-> erased.t, outcome |-> erased.outcome, ret |-> pos]

\* pop_back(), the map not being empty.
pop_back(t, garbage) == erase_pos(t, size(t) - 1, garbage)

\* The swap of unordered_erase with the values alone: the two buckets keep
\* their indexes.
swap_with_last_elem_values(t, it_bucket_key, it_bucket_last_elem) ==
    LET key_index == Bucket(t, it_bucket_key).m_index
        last_index == Bucket(t, it_bucket_last_elem).m_index
    IN  [t EXCEPT !.m_values[key_index + 1] = t.m_values[last_index + 1],
                  !.m_values[last_index + 1] = t.m_values[key_index + 1]]

\* The two swaps of unordered_erase: the value of the key with the last
\* value of m_values, and the indexes of their two buckets.
swap_with_last_elem(t, it_bucket_key, it_bucket_last_elem) ==
    LET key_index == Bucket(t, it_bucket_key).m_index
        last_index == Bucket(t, it_bucket_last_elem).m_index
    IN  [t EXCEPT !.m_values[key_index + 1] = t.m_values[last_index + 1],
                  !.m_values[last_index + 1] = t.m_values[key_index + 1],
                  !.m_buckets[it_bucket_key + 1].m_index = last_index,
                  !.m_buckets[it_bucket_last_elem + 1].m_index = key_index]

\* unordered_erase(key, hash): ret is the number of values erased.
unordered_erase_hash(t, key, hash, garbage) ==
    LET it_bucket_key == find_key(t, key, hash, garbage)
    IN  IF it_bucket_key = buckets_end(t) THEN [t |-> t, outcome |-> "returns", ret |-> 0]
        ELSE IF size(t) = 0 THEN [t |-> t, outcome |-> "undefined", ret |-> 1]
        ELSE LET back == t.m_values[size(t)].first
                 it_bucket_last_elem == find_key(t, back, hash_key(t, back), garbage)
                 swapped ==
                     IF compare_keys(key, back) THEN [t |-> t, outcome |-> "returns"]
                     ELSE IF \/ it_bucket_last_elem = buckets_end(t)
                             \/ Bucket(t, it_bucket_key).m_index >= size(t)
                             \/ Bucket(t, it_bucket_last_elem).m_index >= size(t)
                     THEN [t |-> t, outcome |-> "undefined"]
                     ELSE [t |-> swap_with_last_elem(t, it_bucket_key, it_bucket_last_elem),
                           outcome |-> "returns"]
             IN  IF swapped.outcome /= "returns"
                 THEN [t |-> t, outcome |-> swapped.outcome, ret |-> 1]
                 ELSE LET erased == erase_value_from_bucket(swapped.t, it_bucket_key)
                      IN  [t |-> erased.t, outcome |-> erased.outcome, ret |-> 1]

unordered_erase(t, key, garbage) == unordered_erase_hash(t, key, hash_key(t, key), garbage)

\* unordered_erase(const_iterator pos): ret is the iterator returned.
unordered_erase_pos(t, pos, garbage) ==
    LET erased == unordered_erase(t, t.m_values[pos + 1].first, garbage)
    IN  [t |-> erased.t, outcome |-> erased.outcome, ret |-> pos]

\* The loop over the buckets of erase(first, last), from bucket ibucket on.
RECURSIVE erase_range_buckets(_, _, _, _, _)
erase_range_buckets(t, ibucket, start_index, end_index, nb_values) ==
    IF ibucket >= bucket_count(t) THEN t
    ELSE IF empty(Bucket(t, ibucket))
    THEN erase_range_buckets(t, ibucket + 1, start_index, end_index, nb_values)
    ELSE IF /\ Bucket(t, ibucket).m_index >= start_index
            /\ Bucket(t, ibucket).m_index < end_index
    THEN erase_range_buckets(
             backward_shift([t EXCEPT !.m_buckets[ibucket + 1] = clear_bucket(@)], ibucket),
             ibucket + 1, start_index, end_index, nb_values)
    ELSE IF Bucket(t, ibucket).m_index >= end_index
    THEN erase_range_buckets(
             [t EXCEPT !.m_buckets[ibucket + 1].m_index = @ - nb_values],
             ibucket + 1, start_index, end_index, nb_values)
    ELSE erase_range_buckets(t, ibucket + 1, start_index, end_index, nb_values)

\* erase(const_iterator first, const_iterator last), first <= last <= end():
\* ret is the iterator returned.
erase_range(t, first, last) ==
    IF first = last THEN [t |-> t, outcome |-> "returns", ret |-> first]
    ELSE [t |-> erase_range_buckets([t EXCEPT !.m_values = EraseRange(@, first, last)],
                                    0, first, last, last - first),
          outcome |-> "returns", ret |-> first]

clear(t) ==
    [t EXCEPT !.m_buckets = [i \in 1 .. bucket_count(t) |-> clear_bucket(t.m_buckets[i])],
              !.m_values = << >>]

\* The loop of insert(first, last) over the range, a sequence of pairs.
RECURSIVE insert_each(_, _, _, _)
insert_each(t, range, i, garbage) ==
    IF i > Len(range) THEN [t |-> t, outcome |-> "returns", done |-> Len(range)]
    ELSE LET one == insert(t, range[i].first, range[i].second, garbage)
         IN  IF one.outcome /= "returns"
             THEN [t |-> one.t, outcome |-> one.outcome, done |-> i - 1]
             ELSE insert_each(one.t, range, i + 1, garbage)

\* insert(InputIt first, InputIt last) with forward iterators.  The
\* subtraction is unsigned: below zero it wraps to a huge number of free
\* buckets.
insert_range(t, range, garbage) ==
    LET nb_elements_insert == Len(range)
        reserves == /\ nb_elements_insert > 0
                    /\ t.m_load_threshold >= size(t)
                    /\ t.m_load_threshold - size(t) < nb_elements_insert
    IN  IF reserves /\ ~reserve_ends(t, size(t) + nb_elements_insert)
        THEN [t |-> t, outcome |-> "diverges", done |-> 0]
        ELSE insert_each(IF reserves THEN reserve(t, size(t) + nb_elements_insert) ELSE t,
                         range, 1, garbage)

\* hint != cend() && key_eq()(KeySelect()(*hint), key): hint is a position
\* of m_values, or size() for cend().
HintHasKey(t, hint, key) ==
    hint /= size(t) /\ compare_keys(t.m_values[hint + 1].first, key)

\* insert(hint, value) that takes the hint for the place of the key.
insert_hint_trusts(t, hint, key, value, garbage) ==
    IF hint /= size(t)
    THEN [t |-> t, it |-> hint, inserted |-> FALSE, outcome |-> "returns"]
    ELSE insert(t, key, value, garbage)

\* insert(const_iterator hint, const value_type& value): the iterator alone
\* is returned, the flag is kept here for the caller of the model.
insert_hint(t, hint, key, value, garbage) ==
    IF HintHasKey(t, hint, key)
    THEN [t |-> t, it |-> hint, inserted |-> FALSE, outcome |-> "returns"]
    ELSE insert(t, key, value, garbage)

\* try_emplace(const_iterator hint, const key_type& k, Args&&... args)
try_emplace_hint(t, hint, key, value, garbage) ==
    IF HintHasKey(t, hint, key)
    THEN [t |-> t, it |-> hint, inserted |-> FALSE, outcome |-> "returns"]
    ELSE try_emplace(t, key, value, garbage)

\* insert_or_assign(const_iterator hint, const key_type& k, M&& obj)
insert_or_assign_hint(t, hint, key, value, garbage) ==
    IF HintHasKey(t, hint, key)
    THEN [t |-> [t EXCEPT !.m_values[hint + 1].second = value], it |-> hint,
          inserted |-> FALSE, outcome |-> "returns"]
    ELSE insert_or_assign(t, key, value, garbage)

\* operator=(std::initializer_list<value_type> ilist): clear, reserve and
\* insert the list.
assign_list(t, ilist, garbage) ==
    IF ~reserve_ends(clear(t), Len(ilist))
    THEN [t |-> t, outcome |-> "diverges", done |-> 0]
    ELSE insert_range(reserve(clear(t), Len(ilist)), ilist, garbage)

\* swap(other): the members of the two tables change places.
swap(t, other) == [t |-> other, other |-> t]

\* The table a move constructor or a move assignment has moved from.  The
\* class declares neither: the compiler's move takes the two containers,
\* which are left empty, and copies the other members, which stay as they
\* were.
moved_from(t) == [t EXCEPT !.m_buckets = << >>, !.m_values = << >>]

\* The mapped value operator[] constructs: T().
value_initialized == 0

\* The mapped values of the model: T() and one other value.
Values == {value_initialized, 1}

\* operator[](key): try_emplace(key) with no value argument.
subscript(t, key, garbage) == try_emplace(t, key, value_initialized, garbage)

\* at(key) that constructs the value it does not find, as operator[] does.
at_constructs(t, key, garbage) ==
    LET it == subscript(t, key, garbage)
    IN  IF it.outcome = "returns" /\ it.it < size(it.t)
        THEN [t |-> it.t, value |-> it.t.m_values[it.it + 1].second, outcome |-> "returns"]
        ELSE [t |-> it.t, value |-> value_initialized, outcome |-> it.outcome]

\* at(key, hash): the mapped value of the key, std::out_of_range if
\* find(key, hash) is end().  The function is const: the table it leaves is the table it is
\* called on.
at_hash(t, key, hash, garbage) ==
    LET it == find_hash(t, key, hash, garbage)
    IN  IF it = size(t)
        THEN [t |-> t, value |-> value_initialized, outcome |-> "out_of_range"]
        ELSE IF it < size(t)
        THEN [t |-> t, value |-> t.m_values[it + 1].second, outcome |-> "returns"]
        ELSE [t |-> t, value |-> value_initialized, outcome |-> "undefined"]

\* at(key)
at(t, key, garbage) == at_hash(t, key, hash_key(t, key), garbage)

\* count(key, hash)
count_hash(t, key, hash, garbage) ==
    IF find_hash(t, key, hash, garbage) = size(t) THEN 0 ELSE 1

\* count(key)
count_key(t, key, garbage) == count_hash(t, key, hash_key(t, key), garbage)

\* equal_range(key): the pair (it, it == end() ? it : std::next(it)).
equal_range(t, key, garbage) ==
    LET it == find(t, key, garbage)
    IN  << it, IF it = size(t) THEN it ELSE it + 1 >>

(***************************************************************************)
(* Chunked serialization (ordered_hash_chunked_serialization.h).  The      *)
(* Serializer and the Deserializer are the caller's; here they write and   *)
(* read a stream of 32-bit words, low word first: a std::uint32_t and a    *)
(* float are one word, a slz_size_type is two, a value_type (a pair of two *)
(* ints) is two.  sizeof counts bytes, four to the word.                   *)
(***************************************************************************)
HEADER == 1
DATA_ELEMENTS == 2
DATA_BUCKETS == 3
END == 4

SERIALIZATION_PROTOCOL_VERSION == 1

\* The words of a float: the bits of 0.5f, 0.9f, 0.05f and 2.0f.
float_words(ml) ==
    << CASE ml = 50 -> 1056964608
         [] ml = 90 -> 1063675494
         [] ml = 5 -> 1028443341
         [] ml = 200 -> 1073741824
         [] OTHER -> 0 >>

\* The float of a word, in hundredths: the small words of the model are the
\* bits of floats below 0.01.
word_float(word) ==
    CASE word = 1056964608 -> 50
      [] word = 1063675494 -> 90
      [] word = 1028443341 -> 5
      [] word = 1073741824 -> 200
      [] OTHER -> 0

\* The words of a slz_size_type: no value of the model fills the low word.
slz_words(value) == << value, 0 >>

\* The slz_size_type of two words; a high word that is set makes it larger
\* than every index_type, hash_type and count of the model.
words_slz(low, high) == IF high = 0 THEN low ELSE 2 ^ 30

\* chunked_serializer::serialize_value: cs is the serializer, out what it
\* has written through m_serializer.
serialize_value(cs, words) ==
    [cs EXCEPT !.out = @ \o words,
               !.m_current_chunk_size = @ + 4 * Len(words)]

\* start_chunk(type); m_current_chunk_type is written and never read.
start_chunk(cs, type) == [cs EXCEPT !.m_current_chunk_size = 0]

\* end_chunk()
end_chunk(cs) == [cs EXCEPT !.m_current_chunk_size = 0]

start_new_chunk_if_needed(cs, type) ==
    IF cs.m_current_chunk_size >= cs.m_chunk_size
    THEN start_chunk(end_chunk(cs), type)
    ELSE cs

\* The loop over m_values, from value number i on.
RECURSIVE serialize_elements(_, _, _)
serialize_elements(cs, values, i) ==
    IF i >= Len(values) THEN cs
    ELSE serialize_elements(
             serialize_value(start_new_chunk_if_needed(cs, DATA_ELEMENTS),
                             << values[i + 1].first, values[i + 1].second >>),
             values, i + 1)

\* The loop over the buckets, from bucket number i on.
RECURSIVE serialize_buckets(_, _, _)
serialize_buckets(cs, buckets, i) ==
    IF i >= Len(buckets) THEN cs
    ELSE serialize_buckets(
             serialize_value(
                 serialize_value(start_new_chunk_if_needed(cs, DATA_BUCKETS),
                                 slz_words(buckets[i + 1].m_index)),
                 slz_words(buckets[i + 1].m_hash)),
             buckets, i + 1)

\* serialize_chunked(serializer, chunk_size): the words written.
serialize_chunked(t, chunk_size) ==
    LET cs == [out |-> << >>, m_chunk_size |-> chunk_size, m_current_chunk_size |-> 0]
        header == end_chunk(
                      serialize_value(
                          serialize_value(
                              serialize_value(
                                  serialize_value(start_chunk(cs, HEADER),
                                      slz_words(SERIALIZATION_PROTOCOL_VERSION)),
                                  slz_words(size(t))),
                              slz_words(bucket_count(t))),
                          float_words(t.m_max_load_factor)))
        elements == end_chunk(
                        serialize_elements(start_chunk(header, DATA_ELEMENTS),
                                           t.m_values, 0))
        buckets == end_chunk(
                       serialize_buckets(start_chunk(elements, DATA_BUCKETS),
                                         t.m_buckets, 0))
    IN  end_chunk(start_chunk(buckets, END)).out

\* The deserializer d: the table it fills, pos words of the stream read,
\* and the members of chunked_deserializer.  m_remaining_data_in_chunk is a
\* std::size_t: taken below zero it wraps around, and the model keeps the
\* negative number for the wrapped one, which is not zero either.  outcome
\* is "reading" until the call ends.  A read past the end of the stream is
\* the Deserializer's to answer: "undefined".

\* The HEADER chunk of deserialize_chunked: read and left aside when the
\* call resumes.  The limits of the load factor are
\* MAX_LOAD_FACTOR__MINIMUM and MAX_LOAD_FACTOR__MAXIMUM of the base, 0.1f
\* and 0.95f.  m_buckets.reserve(n) of an empty array has capacity n.
read_header(d, stream, hash_compatible, resuming) ==
    IF d.pos + 2 > Len(stream) THEN [d EXCEPT !.outcome = "undefined"]
    ELSE IF /\ ~resuming
            /\ words_slz(stream[d.pos + 1], stream[d.pos + 2])
                   /= SERIALIZATION_PROTOCOL_VERSION
    THEN [d EXCEPT !.pos = @ + 2, !.m_remaining_data_in_chunk = @ - 8,
                   !.outcome = "runtime_error"]
    ELSE IF d.pos + 7 > Len(stream) THEN [d EXCEPT !.outcome = "undefined"]
    ELSE LET nb_elements == words_slz(stream[d.pos + 3], stream[d.pos + 4])
             bucket_count_ds == words_slz(stream[d.pos + 5], stream[d.pos + 6])
             max_load_factor == word_float(stream[d.pos + 7])
             read == [d EXCEPT !.pos = @ + 7, !.m_remaining_data_in_chunk = @ - 28]
         IN  IF resuming THEN read
             ELSE IF max_load_factor < 10 \/ max_load_factor > 95
             THEN [read EXCEPT !.outcome = "runtime_error"]
             ELSE IF ~hash_compatible
             THEN IF reserve_ends(set_max_load_factor(d.t, max_load_factor), nb_elements)
                  THEN [read EXCEPT !.t = reserve(set_max_load_factor(d.t, max_load_factor),
                                                  nb_elements)]
                  ELSE [read EXCEPT !.outcome = "diverges"]
             ELSE [read EXCEPT !.t = [set_max_load_factor(d.t, max_load_factor)
                                          EXCEPT !.m_mask = bucket_count_ds - 1]]

\* The DATA_ELEMENTS chunk: insert, or push_back when hash_compatible.
RECURSIVE read_elements(_, _, _)
read_elements(d, stream, hash_compatible) ==
    IF d.m_remaining_data_in_chunk = 0 THEN d
    ELSE IF d.pos + 2 > Len(stream) THEN [d EXCEPT !.outcome = "undefined"]
    ELSE LET key == stream[d.pos + 1]
             value == stream[d.pos + 2]
             read == [d EXCEPT !.pos = @ + 2, !.m_remaining_data_in_chunk = @ - 8]
         IN  IF hash_compatible
             THEN read_elements(
                      [read EXCEPT !.t.m_values = Append(@, [first |-> key, second |-> value])],
                      stream, hash_compatible)
             ELSE IF bucket_count(d.t) = 0 THEN [read EXCEPT !.outcome = "undefined"]
             ELSE LET r == insert(d.t, key, value, 0)
                  IN  IF r.outcome = "returns"
                      THEN read_elements([read EXCEPT !.t = r.t], stream, hash_compatible)
                      ELSE [read EXCEPT !.outcome = r.outcome]

\* The DATA_BUCKETS chunk: push_back of bucket_entry(index, hash) when
\* hash_compatible, numeric_cast throwing on a number that does not fit;
\* skipped when not.
RECURSIVE read_buckets(_, _, _)
read_buckets(d, stream, hash_compatible) ==
    IF d.m_remaining_data_in_chunk = 0 THEN d
    ELSE IF d.pos + 4 > Len(stream) THEN [d EXCEPT !.outcome = "undefined"]
    ELSE LET index == words_slz(stream[d.pos + 1], stream[d.pos + 2])
             hash == words_slz(stream[d.pos + 3], stream[d.pos + 4])
             read == [d EXCEPT !.pos = @ + 4, !.m_remaining_data_in_chunk = @ - 16]
         IN  IF ~hash_compatible THEN read_buckets(read, stream, hash_compatible)
             ELSE IF index > EMPTY_MARKER_INDEX \/ hash /= truncate_hash(hash)
             THEN [read EXCEPT !.outcome = "runtime_error"]
             ELSE read_buckets(
                      [read EXCEPT !.t.m_buckets =
                                       [i \in 1 .. Len(@) + 1 |->
                                            IF i <= Len(@) THEN @[i]
                                            ELSE [m_index |-> index, m_hash |-> hash]]],
                      stream, hash_compatible)

\* chunked_deserializer::deserialize_chunk_header
deserialize_chunk_header(d, stream) ==
    IF d.pos + 2 > Len(stream) THEN [d EXCEPT !.outcome = "undefined"]
    ELSE [d EXCEPT !.pos = @ + 2,
                   !.m_current_chunk_type = stream[d.pos + 1],
                   !.m_remaining_data_in_chunk = stream[d.pos + 2]]

\* The while (true) loop of deserialize_chunked.
RECURSIVE deserialize_loop(_, _, _, _)
deserialize_loop(d, stream, hash_compatible, resuming) ==
    LET at_chunk == IF d.m_remaining_data_in_chunk = 0
                    THEN deserialize_chunk_header(d, stream)
                    ELSE d
        type == at_chunk.m_current_chunk_type
    IN  IF at_chunk.outcome /= "reading" THEN at_chunk
        ELSE IF d.m_remaining_data_in_chunk = 0 /\ type = END
        THEN [at_chunk EXCEPT !.outcome = "returns"]
        ELSE LET done == CASE type = HEADER ->
                                  read_header(at_chunk, stream, hash_compatible, resuming)
                           [] type = DATA_ELEMENTS ->
                                  read_elements(at_chunk, stream, hash_compatible)
                           [] type = DATA_BUCKETS ->
                                  read_buckets(at_chunk, stream, hash_compatible)
                           [] OTHER -> [at_chunk EXCEPT !.outcome = "runtime_error"]
             IN  IF done.outcome /= "reading" THEN done
                 ELSE deserialize_loop(done, stream, hash_compatible, resuming)

\* The table deserialize_chunked asks for: m_buckets is empty.
receiver(t) ==
    [ordered_hash(0, t.Hash, t.m_values_max_size, DEFAULT_MAX_LOAD_FACTOR)
         EXCEPT !.m_buckets = [i \in 1 .. 0 |-> bucket_entry], !.m_mask = 0]

\* deserialize_chunked that starts afresh at every call and drops the values
\* the table has.
deserialize_chunked_afresh(t, stream, hash_compatible) ==
    LET d == deserialize_loop(
                 [t |-> receiver(t), pos |-> 0, m_current_chunk_type |-> HEADER,
                  m_remaining_data_in_chunk |-> 0, outcome |-> "reading"],
                 stream, hash_compatible, FALSE)
    IN  [t |-> d.t, outcome |-> d.outcome]

\* deserialize_chunked(deserializer, hash_compatible) on the table t: the
\* table after the call and how the call ends.
deserialize_chunked(t, stream, hash_compatible) ==
    LET d == deserialize_loop(
                 [t |-> t, pos |-> 0, m_current_chunk_type |-> HEADER,
                  m_remaining_data_in_chunk |-> 0, outcome |-> "reading"],
                 stream, hash_compatible, size(t) /= 0)
    IN  [t |-> d.t, outcome |-> d.outcome]

\* The stream deserialize_chunked reads: the chunk of `kind` that holds the
\* words, its byte-length before them.
chunk(kind, words) == << kind, 4 * Len(words) >> \o words

\* The chunks of `kind` that hold records first .. last_ - 1 (0-based) of
\* the list, per_chunk records to the chunk, each record a tuple of words.
RECURSIVE chunks(_, _, _, _, _)
chunks(kind, records, first, last_, per_chunk) ==
    IF first >= last_ THEN << >>
    ELSE LET upto == Min(first + per_chunk, last_)
             RECURSIVE words(_)
             words(i) == IF i >= upto THEN << >> ELSE records[i + 1] \o words(i + 1)
         IN  chunk(kind, words(first)) \o chunks(kind, records, upto, last_, per_chunk)

\* The framed stream of the table t: HEADER, DATA_ELEMENTS with the values
\* first .. last_ - 1, DATA_BUCKETS when these are the last values, END.
framed(t, version, first, last_, per_chunk) ==
    chunk(HEADER, slz_words(version) \o slz_words(size(t)) \o slz_words(bucket_count(t))
                      \o float_words(t.m_max_load_factor))
    \o chunks(DATA_ELEMENTS,
              [i \in 1 .. size(t) |-> << t.m_values[i].first, t.m_values[i].second >>],
              first, last_, per_chunk)
    \o (IF last_ = size(t)
        THEN chunks(DATA_BUCKETS,
                    [i \in 1 .. bucket_count(t) |->
                         slz_words(t.m_buckets[i].m_index) \o slz_words(t.m_buckets[i].m_hash)],
                    0, bucket_count(t), per_chunk)
        ELSE << >>)
    \o chunk(END, << >>)

(***************************************************************************)
(* The abstract map the operations are meant to implement: a list of       *)
(* key/value pairs without duplicate keys.                                 *)
(***************************************************************************)
\* The position (0-based) of the first pair of the list with the key, the
\* length of the list if there is none.
PositionFrom(list, key, i) ==
    IF \E j \in i + 1 .. Len(list) : list[j].first = key
    THEN (CHOOSE j \in i + 1 .. Len(list) :
              /\ list[j].first = key
              /\ \A k \in i + 1 .. j - 1 : list[k].first /= key) - 1
    ELSE Len(list)

Position(list, key) == PositionFrom(list, key, 0)

Present(list, key) == Position(list, key) < Len(list)

AbsInsert(list, key, value) ==
    IF Present(list, key) THEN list ELSE Append(list, [first |-> key, second |-> value])

AbsAssign(list, key, value) ==
    IF Present(list, key)
    THEN [list EXCEPT ![Position(list, key) + 1].second = value]
    ELSE Append(list, [first |-> key, second |-> value])

RECURSIVE AbsInsertAll(_, _, _)
AbsInsertAll(list, range, i) ==
    IF i > Len(range) THEN list
    ELSE AbsInsertAll(AbsInsert(list, range[i].first, range[i].second), range, i + 1)

AbsErase(list, key) ==
    IF Present(list, key) THEN EraseAt(list, Position(list, key)) ELSE list

\* The last pair takes the place of the pair erased.
AbsUnorderedErase(list, key) ==
    IF ~Present(list, key) THEN list
    ELSE IF Position(list, key) = Len(list) - 1 THEN SubSeq(list, 1, Len(list) - 1)
    ELSE SubSeq([list EXCEPT ![Position(list, key) + 1] = list[Len(list)]],
                1, Len(list) - 1)

(***************************************************************************)
(* State.                                                                  *)
(*   m_ht  the table of the map                                            *)
(*   ref   the abstract map, driven by the same calls                      *)
(*   last  the last call: its name, arguments and results                  *)
(***************************************************************************)
VARIABLES m_ht, ref, last

vars == << m_ht, ref, last >>

\* In the actions a call is evaluated once and its result r named by
\* \E r \in {call} : ..., which reads as LET r == call IN ...

\* The last call.  key: the key of an erase(key), and of an insert(key, v)
\* that comes right after the erase(key) that erased it; 0 for the other
\* calls.  pos: the position an erase acts at.  ret: the iterator or the
\* count returned; inserted: the flag returned with it.  rehashed: the call
\* has changed the number of buckets.  sound: set when the call has
\* returned, the index is then sound.
Call(op, key, pos, ret, inserted, outcome, rehashed) ==
    [op |-> op, key |-> key, pos |-> pos, ret |-> ret, inserted |-> inserted,
     outcome |-> outcome, rehashed |-> rehashed, sound |-> FALSE]

Rehashed(t, after) == bucket_count(after) /= bucket_count(t)

\* What a read past the end of m_values may yield: nothing is read past the
\* end while every bucket's index is a position of m_values.
Garbage(t) ==
    IF \A i \in 1 .. bucket_count(t) :
           empty(t.m_buckets[i]) \/ t.m_buckets[i].m_index < size(t)
    THEN {0}
    ELSE 0 .. NumKeys

\* The index is whole: every bucket in use holds a position of m_values and
\* every position of m_values is held by exactly one bucket.
IndexIsWhole(t) ==
    /\ \A i \in 1 .. bucket_count(t) :
           empty(t.m_buckets[i]) \/ t.m_buckets[i].m_index < size(t)
    /\ \A index \in 0 .. size(t) - 1 :
           Cardinality({i \in 1 .. bucket_count(t) : t.m_buckets[i].m_index = index}) = 1

\* The index is sound: it is whole and finds every value of m_values at its
\* position.
IndexIsSound(t) ==
    /\ IndexIsWhole(t)
    /\ \A index \in 0 .. size(t) - 1 : find(t, t.m_values[index + 1].first, 0) = index

\* The calls the model follows: those that return or throw, within the bounds.
\* A rehash or reserve is followed when its loops end.
Followed(r) ==
    /\ r.outcome \in {"returns", "length_error", "out_of_range"}
    /\ size(r.t) <= MaxSize
    /\ bucket_count(r.t) <= Max(MaxBucketCount, bucket_count(m_ht))

\* ordered_map(bucket_count, hash, equal, alloc): the label keeps the
\* bucket_count asked for.
Construct(hashes, allocs) ==
    /\ \E count \in 0 .. MaxBucketCount, hash \in hashes, alloc \in allocs :
           /\ m_ht = ordered_hash(count, hash, alloc, DEFAULT_MAX_LOAD_FACTOR)
           /\ last = Call("ordered_map", 0, 0, count, FALSE, "returns", FALSE)
    /\ ref = << >>

\* A map whose container takes every value the model inserts.
Init == Construct({"neighbours"}, {MaxSize})

\* The same under each of the two hashes.
InitHashes == Construct(Hashes, {MaxSize})

\* A map whose container is full before every key of the model is in it.
InitFull == Construct({"neighbours"}, 1 .. MaxSize - 1)

\* A map with more buckets than the truncated hash has values, under the
\* hash whose values need one bit more than the truncated hash has.
InitWide ==
    /\ m_ht = ordered_hash(2 ^ (TruncBits + 1), "high", MaxSize, DEFAULT_MAX_LOAD_FACTOR)
    /\ last = Call("ordered_map", 0, 0, 2 ^ (TruncBits + 1), FALSE, "returns", FALSE)
    /\ ref = << >>

\* Between two calls last.op is "idle".  Of the call that returned, the
\* caller keeps the key that an erase(key) has just erased.
Idle == last.op = "idle"

\* A state whose index is broken is kept, and no call is made from it: the
\* tables a broken index leads to are without number.  Return has looked at
\* the index and left what it saw in last.sound.
Callable == Idle /\ last.sound

\* A call that probes: it reads m_buckets[hash & m_mask].  On a table
\* without buckets that read is out of range, the call has no defined
\* course and the model does not follow it.
Probes == Callable /\ bucket_count(m_ht) > 0

Insert(key, value) ==
    /\ Probes
    /\ \E garbage \in Garbage(m_ht) :
        \E r \in {insert(m_ht, key, value, garbage)} :
            /\ Followed(r)
            /\ m_ht' = r.t
            /\ ref' = IF r.outcome = "returns" THEN AbsInsert(ref, key, value) ELSE ref
            /\ last' = Call("insert", IF last.key = key THEN key ELSE 0, 0, r.it, r.inserted,
                            r.outcome, Rehashed(m_ht, r.t))

Emplace(key, value) ==
    /\ Probes
    /\ \E garbage \in Garbage(m_ht) :
        \E r \in {emplace(m_ht, key, value, garbage)} :
            /\ Followed(r)
            /\ m_ht' = r.t
            /\ ref' = IF r.outcome = "returns" THEN AbsInsert(ref, key, value) ELSE ref
            /\ last' = Call("emplace", 0, 0, r.it, r.inserted, r.outcome,
                            Rehashed(m_ht, r.t))

TryEmplace(key, value) ==
    /\ Probes
    /\ \E garbage \in Garbage(m_ht) :
        \E r \in {try_emplace(m_ht, key, value, garbage)} :
            /\ Followed(r)
            /\ m_ht' = r.t
            /\ ref' = IF r.outcome = "returns" THEN AbsInsert(ref, key, value) ELSE ref
            /\ last' = Call("try_emplace", 0, 0, r.it, r.inserted, r.outcome,
                            Rehashed(m_ht, r.t))

Subscript(key) ==
    /\ Probes
    /\ \E garbage \in Garbage(m_ht) :
        \E r \in {subscript(m_ht, key, garbage)} :
            /\ Followed(r)
            /\ m_ht' = r.t
            /\ ref' = IF r.outcome = "returns"
                      THEN AbsInsert(ref, key, value_initialized) ELSE ref
            /\ last' = Call("operator[]", 0, 0, r.it, r.inserted, r.outcome,
                            Rehashed(m_ht, r.t))

InsertOrAssign(key, value) ==
    /\ Probes
    /\ \E garbage \in Garbage(m_ht) :
        \E r \in {insert_or_assign(m_ht, key, value, garbage)} :
            /\ Followed(r)
            /\ m_ht' = r.t
            /\ ref' = IF r.outcome = "returns" THEN AbsAssign(ref, key, value) ELSE ref
            /\ last' = Call("insert_or_assign", 0, 0, r.it, r.inserted, r.outcome,
                            Rehashed(m_ht, r.t))

\* The ranges insert(first, last) is called with: no pair, one pair, and two
\* pairs of different values, of one key or of two.
Pairs == [first : Keys, second : Values]

Ranges ==
    {<< >>} \cup {<<pair>> : pair \in Pairs}
            \cup {range \in [1 .. 2 -> Pairs] : range[1].second /= range[2].second}

InsertRange(range) ==
    /\ Probes
    /\ \E garbage \in Garbage(m_ht) :
        \E r \in {insert_range(m_ht, range, garbage)} :
            /\ Followed(r)
            /\ m_ht' = r.t
            /\ ref' = AbsInsertAll(ref, SubSeq(range, 1, r.done), 1)
            /\ last' = Call("insert_range", 0, 0, 0, FALSE, r.outcome, Rehashed(m_ht, r.t))

EraseKey(key) ==
    /\ Probes
    /\ \E garbage \in Garbage(m_ht) :
        \E r \in {erase_key(m_ht, key, garbage)} :
            /\ Followed(r)
            /\ m_ht' = r.t
            /\ ref' = AbsErase(ref, key)
            /\ last' = Call("erase", key, Position(m_ht.m_values, key), r.ret, FALSE,
                            r.outcome, FALSE)

ErasePos(pos) ==
    /\ Probes
    /\ \E garbage \in Garbage(m_ht) :
        /\ pos < size(m_ht)
        /\ \E r \in {erase_pos(m_ht, pos, garbage)} :
               /\ Followed(r)
               /\ m_ht' = r.t
               /\ ref' = IF pos < Len(ref) THEN EraseAt(ref, pos) ELSE ref
               /\ last' = Call("erase_pos", 0, pos, r.ret, FALSE, r.outcome, FALSE)

PopBack ==
    /\ Probes
    /\ \E garbage \in Garbage(m_ht) :
        /\ size(m_ht) > 0
        /\ \E r \in {pop_back(m_ht, garbage)} :
               /\ Followed(r)
               /\ m_ht' = r.t
               /\ ref' = IF Len(ref) > 0 THEN SubSeq(ref, 1, Len(ref) - 1) ELSE ref
               /\ last' = Call("pop_back", 0, size(m_ht) - 1, 0, FALSE, r.outcome, FALSE)

UnorderedEraseKey(key) ==
    /\ Probes
    /\ \E garbage \in Garbage(m_ht) :
        \E r \in {unordered_erase(m_ht, key, garbage)} :
            /\ Followed(r)
            /\ m_ht' = r.t
            /\ ref' = AbsUnorderedErase(ref, key)
            /\ last' = Call("unordered_erase", 0, Position(m_ht.m_values, key), r.ret, FALSE,
                            r.outcome, FALSE)

UnorderedErasePos(pos) ==
    /\ Probes
    /\ \E garbage \in Garbage(m_ht) :
        /\ pos < size(m_ht)
        /\ \E r \in {unordered_erase_pos(m_ht, pos, garbage)} :
               /\ Followed(r)
               /\ m_ht' = r.t
               /\ ref' = IF pos < Len(ref)
                         THEN AbsUnorderedErase(ref, ref[pos + 1].first) ELSE ref
               /\ last' = Call("unordered_erase_pos", 0, pos, r.ret, FALSE, r.outcome, FALSE)

EraseRangeCall(first, last_) ==
    /\ Callable
    /\ first <= last_
    /\ last_ <= size(m_ht)
    /\ \E r \in {erase_range(m_ht, first, last_)} :
           /\ Followed(r)
           /\ m_ht' = r.t
           /\ ref' = IF last_ <= Len(ref) THEN EraseRange(ref, first, last_) ELSE ref
           /\ last' = Call("erase_range", 0, first, r.ret, FALSE, r.outcome, FALSE)

Clear ==
    /\ Callable
    /\ m_ht' = clear(m_ht)
    /\ ref' = << >>
    /\ last' = Call("clear", 0, 0, 0, FALSE, "returns", FALSE)

Rehash(count) ==
    /\ Callable
    /\ round_up_to_power_of_two(rehash_count(m_ht, count)) <= MaxBucketCount
    /\ rehash_ends(m_ht, count)
    /\ m_ht' = rehash(m_ht, count)
    /\ ref' = ref
    /\ last' = Call("rehash", 0, 0, 0, FALSE, "returns",
                    Rehashed(m_ht, rehash(m_ht, count)))

Reserve(count) ==
    /\ Callable
    /\ round_up_to_power_of_two(rehash_count(m_ht, reserve_count(m_ht, count)))
           <= MaxBucketCount
    /\ reserve_ends(m_ht, count)
    /\ m_ht' = reserve(m_ht, count)
    /\ ref' = ref
    /\ last' = Call("reserve", 0, 0, 0, FALSE, "returns",
                    Rehashed(m_ht, reserve(m_ht, count)))

MaxLoadFactor(ml) ==
    /\ Callable
    /\ m_ht' = set_max_load_factor(m_ht, ml)
    /\ ref' = ref
    /\ last' = Call("max_load_factor", 0, 0, 0, FALSE, "returns", FALSE)

\* at(key): ret is the mapped value returned.
At(key) ==
    /\ Probes
    /\ \E garbage \in Garbage(m_ht) :
        \E r \in {at(m_ht, key, garbage)} :
            /\ Followed(r)
            /\ m_ht' = r.t
            /\ ref' = ref
            /\ last' = Call("at", key, Position(m_ht.m_values, key), r.value, FALSE,
                            r.outcome, FALSE)

\* insert(hint, value), hint a position of m_values or cend(): pos is the
\* hint, ret the iterator returned.
InsertHint(hint, key, value) ==
    /\ Probes
    /\ hint <= size(m_ht)
    /\ \E garbage \in Garbage(m_ht) :
        \E r \in {insert_hint(m_ht, hint, key, value, garbage)} :
            /\ Followed(r)
            /\ m_ht' = r.t
            /\ ref' = IF r.outcome = "returns" THEN AbsInsert(ref, key, value) ELSE ref
            /\ last' = Call("insert_hint", 0, hint, r.it, r.inserted, r.outcome,
                            Rehashed(m_ht, r.t))

\* try_emplace(hint, key, value)
TryEmplaceHint(hint, key, value) ==
    /\ Probes
    /\ hint <= size(m_ht)
    /\ \E garbage \in Garbage(m_ht) :
        \E r \in {try_emplace_hint(m_ht, hint, key, value, garbage)} :
            /\ Followed(r)
            /\ m_ht' = r.t
            /\ ref' = IF r.outcome = "returns" THEN AbsInsert(ref, key, value) ELSE ref
            /\ last' = Call("try_emplace_hint", 0, hint, r.it, r.inserted, r.outcome,
                            Rehashed(m_ht, r.t))

\* insert_or_assign(hint, key, value)
InsertOrAssignHint(hint, key, value) ==
    /\ Probes
    /\ hint <= size(m_ht)
    /\ \E garbage \in Garbage(m_ht) :
        \E r \in {insert_or_assign_hint(m_ht, hint, key, value, garbage)} :
            /\ Followed(r)
            /\ m_ht' = r.t
            /\ ref' = IF r.outcome = "returns" THEN AbsAssign(ref, key, value) ELSE ref
            /\ last' = Call("insert_or_assign_hint", 0, hint, r.it, r.inserted, r.outcome,
                            Rehashed(m_ht, r.t))

\* ordered_map other(std::move(map)), or other = std::move(map): the
\* model goes on with the map that was moved from.
Move ==
    /\ Callable
    /\ m_ht' = moved_from(m_ht)
    /\ ref' = << >>
    /\ last' = Call("move", 0, 0, 0, FALSE, "returns", FALSE)

\* map.swap(other) with a map other that was constructed with count
\* buckets and is empty.
Swap(count) ==
    /\ Callable
    /\ m_ht' = swap(m_ht, ordered_hash(count, m_ht.Hash, m_ht.m_values_max_size,
                                       DEFAULT_MAX_LOAD_FACTOR)).t
    /\ ref' = << >>
    /\ last' = Call("swap", 0, 0, 0, FALSE, "returns", Rehashed(m_ht, m_ht'))

\* map = {pairs}
AssignList(ilist) ==
    /\ Callable
    /\ \E garbage \in Garbage(clear(m_ht)) :
        \E r \in {assign_list(m_ht, ilist, garbage)} :
            /\ Followed(r)
            /\ m_ht' = r.t
            /\ ref' = AbsInsertAll(<< >>, SubSeq(ilist, 1, r.done), 1)
            /\ last' = Call("operator=", 0, 0, 0, FALSE, r.outcome, Rehashed(m_ht, r.t))

\* serialize_chunked(serializer, chunk_size): pos is the chunk_size, ret
\* the number of words written.
Serialize(chunk_size) ==
    /\ Callable
    /\ UNCHANGED << m_ht, ref >>
    /\ last' = Call("serialize_chunked", 0, chunk_size,
                    Len(serialize_chunked(m_ht, chunk_size)), FALSE, "returns", FALSE)

\* The calls of deserialize_chunked the model follows: those that return or
\* throw, within the bounds.
Loaded(r) ==
    /\ r.outcome \in {"returns", "length_error", "runtime_error"}
    /\ size(r.t) <= MaxSize
    /\ bucket_count(r.t) <= MaxBucketCount

\* serialize_chunked(serializer, chunk_size) of the map, then
\* deserialize_chunked(deserializer, hash_compatible) of what was written
\* into a new map, which the model goes on with.  pos is the chunk_size,
\* inserted is hash_compatible, ret the size of the map serialized.
Reload(chunk_size, hash_compatible) ==
    /\ Callable
    /\ \E r \in {deserialize_chunked(receiver(m_ht), serialize_chunked(m_ht, chunk_size),
                                     hash_compatible)} :
           /\ Loaded(r)
           /\ m_ht' = r.t
           /\ ref' = r.t.m_values
           /\ last' = Call("deserialize_chunked", 0, chunk_size, size(m_ht),
                           hash_compatible, r.outcome, Rehashed(m_ht, r.t))

\* The map the streams of the model are written from: every key, in order.
source(t) ==
    insert_each(ordered_hash(MaxSize, t.Hash, t.m_values_max_size, DEFAULT_MAX_LOAD_FACTOR),
                [key \in Keys |-> [first |-> key, second |-> key % 2]], 1, 0).t

\* deserialize_chunked(deserializer, hash_compatible) of the map, or of a
\* new one when the map is empty, reading the framed stream of the values
\* first .. last_ - 1 of the source.  With hash_compatible the call reads no
\* bucket and is made whatever the index; without, it probes.  key is the
\* version, pos is first, ret is last_, inserted is hash_compatible.
Load(version, first, last_, per_chunk, hash_compatible) ==
    /\ IF hash_compatible THEN Idle ELSE Callable
    /\ first <= last_
    /\ last_ <= size(source(m_ht))
    /\ \E r \in {deserialize_chunked(IF size(m_ht) = 0 THEN receiver(m_ht) ELSE m_ht,
                                     framed(source(m_ht), version, first, last_, per_chunk),
                                     hash_compatible)} :
           /\ Loaded(r)
           /\ m_ht' = r.t
           /\ ref' = r.t.m_values
           /\ last' = Call("load", version, first, last_, hash_compatible, r.outcome,
                           Rehashed(m_ht, r.t))

\* The values first .. last_ of the long chain: keys that are not keys of
\* the model, in the order of their inserts.
RECURSIVE chain_values(_, _)
chain_values(first, last_) ==
    IF first > last_ THEN << >>
    ELSE IF first = last_ THEN << [first |-> NumKeys + first, second |-> value_initialized] >>
    ELSE chain_values(first, (first + last_) \div 2)
             \o chain_values((first + last_) \div 2 + 1, last_)

\* The bucket_count() of a map constructed with twice as many buckets as
\* REHASH_ON_HIGH_NB_PROBES__NPROBES after n inserts of new keys, none of
\* which set m_grow_on_next_insert: grow_on_high_load has doubled it at
\* each insert that met size() >= m_load_threshold.
RECURSIVE chain_buckets(_, _)
chain_buckets(n, count) ==
    IF n <= (count * DEFAULT_MAX_LOAD_FACTOR) \div 100 THEN count
    ELSE chain_buckets(n, 2 * count)

\* The map after the inserts of n keys that start in bucket 1, in turn, into
\* a map constructed with twice as many buckets as
\* REHASH_ON_HIGH_NB_PROBES__NPROBES.  insert_index has put the i-th of them
\* in bucket i at its first iteration, where no distance is counted, and
\* rehash_impl has put them back there.
chained(n) ==
    [ordered_hash(chain_buckets(n, 2 * REHASH_ON_HIGH_NB_PROBES__NPROBES), "chain",
                  2 ^ IndexBits, DEFAULT_MAX_LOAD_FACTOR)
        EXCEPT !.m_buckets = [i \in 1 .. Len(@) |->
                                  IF i - 1 \in 1 .. n
                                  THEN [m_index |-> i - 2, m_hash |-> truncate_hash(1)]
                                  ELSE bucket_entry],
               !.m_values = chain_values(1, n)]

\* The lengths of the chain: around REHASH_ON_HIGH_NB_PROBES__NPROBES, one
\* value short of the load threshold, and one and two values short of
\* max_size().
ChainLengths ==
    {REHASH_ON_HIGH_NB_PROBES__NPROBES, REHASH_ON_HIGH_NB_PROBES__NPROBES + 1,
     (2 * REHASH_ON_HIGH_NB_PROBES__NPROBES * DEFAULT_MAX_LOAD_FACTOR) \div 100 - 1,
     bucket_max_size - 2, bucket_max_size - 1}

\* The label keeps the length of the chain in ret.
InitChain ==
    \E n \in ChainLengths :
        /\ m_ht = chained(n)
        /\ ref = chained(n).m_values
        /\ last = Call("ordered_map", 0, 0, n, FALSE, "returns", FALSE)

\* insert(value) into the map of the long chain: a key of the model, which
\* starts in bucket 0, with the value a value_type is initialized with.
InsertChained(key) ==
    /\ Probes
    /\ \E r \in {insert(m_ht, key, value_initialized, 0)} :
           /\ r.outcome \in {"returns", "length_error"}
           /\ m_ht' = r.t
           /\ ref' = IF r.outcome = "returns" THEN AbsInsert(ref, key, value_initialized)
                     ELSE ref
           /\ last' = Call("insert", key, 0, r.it, r.inserted, r.outcome,
                           Rehashed(m_ht, r.t))

\* rehash(count) of the map of the long chain.
RehashChained(count) ==
    /\ Callable
    /\ rehash_ends(m_ht, count)
    /\ m_ht' = rehash(m_ht, count)
    /\ ref' = ref
    /\ last' = Call("rehash", 0, 0, count, FALSE, "returns",
                    Rehashed(m_ht, rehash(m_ht, count)))

\* The calls with a hash of the caller's: the label keeps the key in key
\* and the hash in pos.
FindHash(key, hash) ==
    /\ Probes
    /\ UNCHANGED << m_ht, ref >>
    /\ last' = Call("find_hash", key, hash, find_hash(m_ht, key, hash, 0), FALSE,
                    "returns", FALSE)

CountHash(key, hash) ==
    /\ Probes
    /\ UNCHANGED << m_ht, ref >>
    /\ last' = Call("count_hash", key, hash, count_hash(m_ht, key, hash, 0), FALSE,
                    "returns", FALSE)

AtHash(key, hash) ==
    /\ Probes
    /\ \E r \in {at_hash(m_ht, key, hash, 0)} :
           /\ Followed(r)
           /\ m_ht' = r.t
           /\ ref' = ref
           /\ last' = Call("at_hash", key, hash, r.value, FALSE, r.outcome, FALSE)

EraseHash(key, hash) ==
    /\ Probes
    /\ \E r \in {erase_impl(m_ht, key, hash, 0)} :
           /\ Followed(r)
           /\ m_ht' = r.t
           /\ ref' = IF r.ret = 1 THEN AbsErase(ref, key) ELSE ref
           /\ last' = Call("erase_hash", key, hash, r.ret, FALSE, r.outcome, FALSE)

UnorderedEraseHash(key, hash) ==
    /\ Probes
    /\ \E r \in {unordered_erase_hash(m_ht, key, hash, 0)} :
           /\ Followed(r)
           /\ m_ht' = r.t
           /\ ref' = IF r.ret = 1 THEN AbsUnorderedErase(ref, key) ELSE ref
           /\ last' = Call("unordered_erase_hash", key, hash, r.ret, FALSE, r.outcome, FALSE)

Return ==
    /\ ~Idle
    /\ last' = [Call("idle", IF last.op = "erase" /\ last.ret = 1 THEN last.key ELSE 0,
                     0, 0, FALSE, "returns", FALSE)
                    EXCEPT !.sound = IndexIsSound(m_ht)]
    /\ UNCHANGED << m_ht, ref >>

\* The counts rehash and reserve are called with: none, powers of two and
\* numbers between them.
Counts == {0, 1, 2, 3, 5}

\* The calls that insert.
CallInsert ==
    \/ \E key \in Keys, value \in Values : Insert(key, value)
    \/ \E key \in Keys, value \in Values : Emplace(key, value)
    \/ \E key \in Keys, value \in Values : TryEmplace(key, value)
    \/ \E key \in Keys : Subscript(key)
    \/ \E range \in Ranges : InsertRange(range)

\* Every call but the erase of a range.
CallCore ==
    \/ CallInsert
    \/ \E key \in Keys, value \in Values : InsertOrAssign(key, value)
    \/ \E key \in Keys : EraseKey(key)
    \/ \E pos \in 0 .. MaxSize : ErasePos(pos)
    \/ PopBack
    \/ \E key \in Keys : UnorderedEraseKey(key)
    \/ \E pos \in 0 .. MaxSize : UnorderedErasePos(pos)
    \/ Clear
    \/ \E count \in Counts : Rehash(count)
    \/ \E count \in Counts : Reserve(count)
    \/ \E ml \in LoadFactors : MaxLoadFactor(ml)

CallRange ==
    \E first \in 0 .. MaxSize, last_ \in 0 .. MaxSize : EraseRangeCall(first, last_)

NextInsert == CallInsert \/ Return

Next == CallCore \/ Return

NextRange == CallCore \/ CallRange \/ Return

\* The map under every call but the erase of a range.
Spec == Init /\ [][Next]_vars

\* The map under inserts alone.
SpecInsert == Init /\ [][NextInsert]_vars

\* The map under every call.
SpecRange == Init /\ [][NextRange]_vars

\* The calls that lay the values out in the buckets, one of each kind: the
\* other calls go through the same member functions.
CallLayout ==
    \/ \E key \in Keys, value \in Values : Insert(key, value)
    \/ \E key \in Keys : EraseKey(key)
    \/ \E key \in Keys : UnorderedEraseKey(key)
    \/ Clear
    \/ \E count \in Counts : Rehash(count)
    \/ \E count \in Counts : Reserve(count)
    \/ \E ml \in LoadFactors : MaxLoadFactor(ml)

NextLayout == CallLayout \/ CallRange \/ Return

\* The map of each of the two hashes under the calls that lay the values out.
SpecHashes == InitHashes /\ [][NextLayout]_vars

\* The calls that exchange or take the members of the map, with the calls
\* that lay the values out.
CallMove ==
    \/ Move
    \/ \E count \in Counts : Swap(count)
    \/ \E ilist \in Ranges : AssignList(ilist)

NextMove == CallLayout \/ CallMove \/ Return

\* The map under moves, swaps and assignments.
SpecMove == Init /\ [][NextMove]_vars

\* The lookups that may throw, with the calls that lay the values out.
NextLookup == CallLayout \/ (\E key \in Keys : At(key)) \/ Return

\* The map under lookups.
SpecLookup == Init /\ [][NextLookup]_vars

\* Load factors max_load_factor(ml) is also called with: 0.05 and 2.
LoadFactorsBeyond == {5, 200}

NextLoad == CallLayout \/ (\E ml \in LoadFactorsBeyond : MaxLoadFactor(ml)) \/ Return

\* The map under the calls that lay the values out and max_load_factor(ml)
\* of any ml.
SpecLoad == Init /\ [][NextLoad]_vars

\* The calls with a hint.
CallHint ==
    \/ \E hint \in 0 .. MaxSize, key \in Keys, value \in Values :
           InsertHint(hint, key, value)
    \/ \E hint \in 0 .. MaxSize, key \in Keys, value \in Values :
           TryEmplaceHint(hint, key, value)
    \/ \E hint \in 0 .. MaxSize, key \in Keys, value \in Values :
           InsertOrAssignHint(hint, key, value)

NextHint == CallHint \/ (\E key \in Keys : UnorderedEraseKey(key)) \/ Return

\* The map under the calls with a hint.
SpecHint == Init /\ [][NextHint]_vars

\* The chunk sizes serialize_chunked is called with: every value and bucket
\* a chunk, two to a chunk, and the default.
ChunkSizes == {0, 16, 4096}

NextSerial ==
    \/ CallLayout
    \/ \E chunk_size \in ChunkSizes : Serialize(chunk_size)
    \/ \E chunk_size \in ChunkSizes, hash_compatible \in BOOLEAN :
           Reload(chunk_size, hash_compatible)
    \/ Return

\* The map under serialize_chunked and deserialize_chunked of what it wrote.
SpecSerial == Init /\ [][NextSerial]_vars

\* The versions a stream is framed with: the protocol's and the next.
Versions == {SERIALIZATION_PROTOCOL_VERSION, SERIALIZATION_PROTOCOL_VERSION + 1}

NextStream ==
    \/ Clear
    \/ \E version \in Versions, first \in 0 .. MaxSize, last_ \in 0 .. MaxSize,
          per_chunk \in 1 .. 2, hash_compatible \in BOOLEAN :
           Load(version, first, last_, per_chunk, hash_compatible)
    \/ Return

\* The map under deserialize_chunked of framed streams.
SpecStream == Init /\ [][NextStream]_vars

\* The calls with a hash of the caller's, which is the hash of a key of the
\* model: of the key of the call or of another.
CallHashed ==
    \/ \E key \in Keys, other \in Keys : FindHash(key, hash_key(m_ht, other))
    \/ \E key \in Keys, other \in Keys : CountHash(key, hash_key(m_ht, other))
    \/ \E key \in Keys, other \in Keys : AtHash(key, hash_key(m_ht, other))
    \/ \E key \in Keys, other \in Keys : EraseHash(key, hash_key(m_ht, other))
    \/ \E key \in Keys, other \in Keys : UnorderedEraseHash(key, hash_key(m_ht, other))

NextHashed ==
    \/ \E key \in Keys, value \in Values : Insert(key, value)
    \/ \E count \in Counts : Rehash(count)
    \/ CallHashed
    \/ Return

\* The map under the calls with a hash of the caller's.
SpecHashed == Init /\ [][NextHashed]_vars

NextWide ==
    \/ \E key \in Keys, value \in Values : Insert(key, value)
    \/ \E key \in Keys : EraseKey(key)
    \/ \E key \in Keys : UnorderedEraseKey(key)
    \/ Return

\* The map with more buckets than the truncated hash has values.
SpecWide == InitWide /\ [][NextWide]_vars

NextChain ==
    \/ \E key \in Keys : InsertChained(key)
    \/ RehashChained(0)
    \/ Return

\* The map of a long chain under inserts.
SpecChain == InitChain /\ [][NextChain]_vars

\* The map of a small container under every call but the erase of a range.
SpecFull == InitFull /\ [][Next]_vars

(***************************************************************************)
(* The claims.                                                             *)
(***************************************************************************)
\* find(key) is the position of the key in the list, and end() if the list
\* has not the key, whatever a read past the end of m_values yields.
FindAgrees(t, list) ==
    \A key \in Keys : \A garbage \in Garbage(t) :
        find(t, key, garbage) = Position(list, key)

\* The step is a call of the operation op.  Every action of a call names its
\* operation in last', so Made(op) /\ A is the action A of that operation; of
\* the two, the name is the quick one to look at.
Made(op) == last'.op = op

\* C1: after any sequence of insert, emplace, try_emplace, operator[] and
\* range insert on a map that starts empty, the values from begin() to end()
\* are the distinct keys in the order of their first insertion, each with
\* the value of that first insertion.
C1_FirstInsertionOrder == m_ht.m_values = ref

\* An insert of a key the map holds has returned; the map is full and its
\* keys are not in increasing order.
C1_Witness ==
    /\ last.op = "insert" /\ ~last.inserted /\ last.outcome = "returns"
    /\ size(m_ht) = MaxSize
    /\ m_ht.m_values[1].first > m_ht.m_values[2].first

\* C2: after any sequence of insert, erase by key, erase by iterator,
\* unordered_erase, pop_back, clear, rehash and reserve, find(k) is the
\* iterator to the value whose key is k if there is one and end() if not,
\* as in the abstract list the same calls drive.
C2_FindAgreesWithList == FindAgrees(m_ht, ref)

\* An erase(key) has erased a value before the last one: a key is found at
\* the position it was shifted to and the key erased is not found.
C2_Witness ==
    /\ last.op = "erase" /\ last.ret = 1 /\ last.pos = 0
    /\ size(m_ht) = 2
    /\ \E key \in Keys : find(m_ht, key, 0) = 1
    /\ find(m_ht, last.key, 0) = size(m_ht)

\* C3: insert, emplace and try_emplace with a key the map holds return the
\* iterator to its value and false, and leave the whole table as it was.
C3_PresentKeyLeavesTable ==
    [][\A key \in Keys, value \in Values :
           /\ Present(m_ht.m_values, key)
           /\ \/ Made("insert") /\ Insert(key, value)
              \/ Made("emplace") /\ Emplace(key, value)
              \/ Made("try_emplace") /\ TryEmplace(key, value)
           => /\ m_ht' = m_ht
              /\ last'.outcome = "returns"
              /\ ~last'.inserted
              /\ last'.ret = Position(m_ht.m_values, key)]_vars

\* A try_emplace has met its key at position 1, in a table that would have
\* grown had the key been new.
C3_Witness ==
    /\ last.op = "try_emplace" /\ ~last.inserted /\ last.outcome = "returns"
    /\ last.ret = 1
    /\ size(m_ht) >= m_ht.m_load_threshold

\* C4: insert_or_assign(k, v) with k in the map sets its mapped value to v,
\* keeps its position, the size and the order, and returns false; with k
\* not in the map it appends (k, v) and returns true.
C4_InsertOrAssign ==
    [][\A key \in Keys, value \in Values :
           Made("insert_or_assign") /\ InsertOrAssign(key, value)
           => LET values == m_ht.m_values
                  p == Position(values, key)
              IN  /\ last'.outcome = "returns"
                  /\ last'.ret = p
                  /\ IF Present(values, key)
                     THEN /\ ~last'.inserted
                          /\ m_ht'.m_values = [values EXCEPT ![p + 1].second = value]
                     ELSE /\ last'.inserted
                          /\ m_ht'.m_values =
                                 Append(values, [first |-> key, second |-> value])]_vars

\* An insert_or_assign has set the value at position 0, before other values,
\* to a value that is not the value-initialized one.
C4_Witness ==
    /\ last.op = "insert_or_assign" /\ ~last.inserted /\ last.ret = 0
    /\ size(m_ht) >= 2
    /\ m_ht.m_values[1].second /= value_initialized

\* C5: erase(k) of a key at position p returns 1 and removes that value
\* alone: the values before p stay, each value after p moves one position
\* down, and find finds every key left; erase(k) of a key the map has not
\* returns 0 and changes nothing.
C5_OrderedErase ==
    [][\A key \in Keys :
           Made("erase") /\ EraseKey(key)
           => LET values == m_ht.m_values
                  p == Position(values, key)
              IN  IF Present(values, key)
                  THEN /\ last'.ret = 1
                       /\ size(m_ht') = Len(values) - 1
                       /\ \A q \in 0 .. Len(values) - 1 :
                              /\ q < p => m_ht'.m_values[q + 1] = values[q + 1]
                              /\ q > p => m_ht'.m_values[q] = values[q + 1]
                       /\ FindAgrees(m_ht', m_ht'.m_values)
                  ELSE /\ last'.ret = 0
                       /\ m_ht' = m_ht]_vars

\* An erase(key) has erased the first of three values.
C5_Witness ==
    /\ last.op = "erase" /\ last.ret = 1 /\ last.pos = 0
    /\ size(m_ht) = MaxSize - 1

\* C6: unordered_erase(k) of a key at position p returns 1; the last value
\* takes position p (if p is not the last position), the last position is
\* removed, every other value keeps its position and find finds every key
\* left; unordered_erase(k) of a key the map has not returns 0 and changes
\* nothing.
C6_UnorderedErase ==
    [][\A key \in Keys :
           Made("unordered_erase") /\ UnorderedEraseKey(key)
           => LET values == m_ht.m_values
                  p == Position(values, key)
              IN  IF Present(values, key)
                  THEN /\ last'.ret = 1
                       /\ size(m_ht') = Len(values) - 1
                       /\ \A q \in 0 .. Len(values) - 2 :
                              m_ht'.m_values[q + 1] =
                                  IF q = p THEN values[Len(values)] ELSE values[q + 1]
                       /\ FindAgrees(m_ht', m_ht'.m_values)
                  ELSE /\ last'.ret = 0
                       /\ m_ht' = m_ht]_vars

\* An unordered_erase(key) has erased the first of three values.
C6_Witness ==
    /\ last.op = "unordered_erase" /\ last.ret = 1 /\ last.pos = 0
    /\ size(m_ht) = MaxSize - 1

\* C7: after erase(first, last) the values are those of before without the
\* positions first .. last - 1, and find returns end() for every key erased
\* and the new position of every key left.
C7_RangeEraseFinds ==
    last.op = "erase_range" => m_ht.m_values = ref /\ FindAgrees(m_ht, ref)

\* C8: erase(k) of a key the map holds, followed by insert(k, v), leaves k
\* last with the value v and the other values in the order they had: the
\* erase removes the value of k alone, and the insert that follows appends
\* (k, v).
C8_EraseThenInsert ==
    [][/\ \A key \in Keys :
              Made("erase") /\ EraseKey(key) /\ Present(m_ht.m_values, key)
              => /\ last'.ret = 1
                 /\ last'.key = key
                 /\ m_ht'.m_values = AbsErase(m_ht.m_values, key)
       /\ Return /\ last.op = "erase" /\ last.ret = 1
              => /\ m_ht' = m_ht
                 /\ last'.key = last.key
       /\ \A key \in Keys, value \in Values :
              last.key = key /\ Made("insert") /\ Insert(key, value)
              => /\ last'.inserted
                 /\ last'.ret = size(m_ht)
                 /\ m_ht'.m_values =
                        Append(m_ht.m_values, [first |-> key, second |-> value])]_vars

\* The insert(k, v) after an erase(k) has returned, k being last of three.
C8_Witness ==
    /\ last.op = "insert" /\ last.key /= 0 /\ last.inserted
    /\ size(m_ht) = MaxSize
    /\ m_ht.m_values[MaxSize].first = last.key

\* C9: rehash, reserve and the growth inside an insert leave m_values as it
\* was, but for the values the insert appends, and every key the map held
\* is found where it was.
C9_RehashKeepsValues ==
    [][last'.rehashed \/ last'.op \in {"rehash", "reserve"}
           => /\ size(m_ht') >= size(m_ht)
              /\ SubSeq(m_ht'.m_values, 1, size(m_ht)) = m_ht.m_values
              /\ last'.op \in {"rehash", "reserve"} => m_ht'.m_values = m_ht.m_values
              /\ last'.op \in {"insert", "emplace", "try_emplace", "operator[]"}
                     => size(m_ht') = size(m_ht) + 1
              /\ \A key \in Keys : \A garbage \in Garbage(m_ht') :
                     Present(m_ht.m_values, key)
                     => find(m_ht', key, garbage) = Position(m_ht.m_values, key)]_vars

\* An insert has grown the bucket array of a map of two values.
C9_Witness ==
    /\ last.op = "insert" /\ last.rehashed /\ last.inserted
    /\ size(m_ht) = MaxSize

\* C10: in every state exactly size() buckets are in use and the positions
\* they hold are 0 .. size() - 1, each once.
C10_IndexIsPermutation ==
    /\ Cardinality({i \in 1 .. bucket_count(m_ht) : ~empty(m_ht.m_buckets[i])}) = size(m_ht)
    /\ \A index \in 0 .. size(m_ht) - 1 :
           Cardinality({i \in 1 .. bucket_count(m_ht) :
                            m_ht.m_buckets[i].m_index = index}) = 1

\* C11: in every state each bucket in use holds a position of m_values and
\* the truncated hash of the key of the value at that position.
C11_BucketsHoldValues ==
    \A i \in 1 .. bucket_count(m_ht) :
        \/ empty(m_ht.m_buckets[i])
        \/ /\ m_ht.m_buckets[i].m_index < size(m_ht)
           /\ m_ht.m_buckets[i].m_hash =
                  truncate_hash(hash_key(m_ht, m_ht.m_values[m_ht.m_buckets[i].m_index + 1].first))

\* The probe chain of a key: the buckets visited from the key's initial
\* bucket, one after the other with wrap-around, up to the first empty one.
\* ChainBucket is the bucket visited after `step` steps, ProbeChain the steps
\* that are made.
ChainBucket(t, key, step) ==
    (bucket_for_hash(t, hash_key(t, key)) + step) % bucket_count(t)

ProbeChain(t, key) ==
    {step \in 0 .. bucket_count(t) - 1 :
        \A before \in 0 .. step : ~empty(Bucket(t, ChainBucket(t, key, before)))}

\* C12: in every state the probe distances of the buckets along the probe
\* chain of any key never fall from one bucket to the next.
C12_DistancesNeverFall ==
    \A key \in Keys : \A step \in ProbeChain(m_ht, key) :
        step = 0 \/
            dist_from_initial_bucket(m_ht, ChainBucket(m_ht, key, step)) >=
                dist_from_initial_bucket(m_ht, ChainBucket(m_ht, key, step - 1))

\* C12, amended: in every state the probe distance of a bucket along the
\* probe chain of any key is at most one more than the distance of the
\* bucket visited before it, and the bucket that comes after an empty one
\* is empty or holds a value at distance 0.
C12_DistancesRiseByOne ==
    /\ \A key \in Keys : \A step \in ProbeChain(m_ht, key) :
           step = 0 \/
               dist_from_initial_bucket(m_ht, ChainBucket(m_ht, key, step)) <=
                   dist_from_initial_bucket(m_ht, ChainBucket(m_ht, key, step - 1)) + 1
    /\ \A ibucket \in 0 .. bucket_count(m_ht) - 1 :
           empty(Bucket(m_ht, ibucket)) /\ ~empty(Bucket(m_ht, next_bucket(m_ht, ibucket)))
               => dist_from_initial_bucket(m_ht, next_bucket(m_ht, ibucket)) = 0

\* C12, the case: along the chain of a key the distance rises by one and
\* then falls to 0, a value at its initial bucket right after a displaced
\* one.
C12_Witness ==
    \E key \in Keys : \E step \in ProbeChain(m_ht, key) :
        /\ step >= 2
        /\ dist_from_initial_bucket(m_ht, ChainBucket(m_ht, key, step - 2)) = 0
        /\ dist_from_initial_bucket(m_ht, ChainBucket(m_ht, key, step - 1)) = 1
        /\ dist_from_initial_bucket(m_ht, ChainBucket(m_ht, key, step)) = 0

\* C13: after any call that leaves the flag m_grow_on_next_insert unset,
\* size() is at most m_load_threshold, which is
\* floor(bucket_count() * max_load_factor()).
C13_SizeWithinThreshold ==
    /\ m_ht.m_load_threshold = (bucket_count(m_ht) * m_ht.m_max_load_factor) \div 100
    /\ ~m_ht.m_grow_on_next_insert => size(m_ht) <= m_ht.m_load_threshold

\* C14: in every state of the table, one just constructed, rehashed,
\* swapped or moved from, the number of buckets is a power of two, at least
\* 1, and m_mask is that number less one, so that hash & m_mask is the
\* place of a bucket.
C14_BucketsPowerOfTwo ==
    /\ is_power_of_two(bucket_count(m_ht))
    /\ m_ht.m_mask = bucket_count(m_ht) - 1
    /\ \A key \in Keys : bucket_for_hash(m_ht, hash_key(m_ht, key)) < bucket_count(m_ht)

\* C15: at(key) returns the mapped value of the key if the map has it; if
\* not it throws std::out_of_range.  Either way it leaves the table as it
\* was: no value is added, size and order are the same.
C15_At ==
    [][\A key \in Keys :
           Made("at") /\ At(key) =>
               /\ m_ht' = m_ht
               /\ IF Present(ref, key)
                  THEN /\ last'.outcome = "returns"
                       /\ last'.ret = ref[Position(ref, key) + 1].second
                  ELSE last'.outcome = "out_of_range"]_vars

\* C15, the case: at(key) has thrown on a map that holds the other keys.
C15_Witness ==
    /\ last.op = "at"
    /\ last.outcome = "out_of_range"
    /\ size(m_ht) = NumKeys - 1

\* C16: when size() is max_size(), insert throws std::length_error and
\* leaves the table as it was, whatever the key.
C16_FullInsertFails ==
    [][\A key \in Keys, value \in Values :
           Made("insert") /\ Insert(key, value) /\ size(m_ht) = max_size(m_ht) =>
               /\ last'.outcome = "length_error"
               /\ m_ht' = m_ht]_vars

\* C16, amended: when size() is max_size(), insert of a key the map has not
\* throws std::length_error, and insert of a key the map has returns the
\* iterator to it and false; either way the table is left as it was, its
\* buckets not grown.
C16_FullInsertOfNewKeyFails ==
    [][\A key \in Keys, value \in Values :
           Made("insert") /\ Insert(key, value) /\ size(m_ht) = max_size(m_ht) =>
               /\ m_ht' = m_ht
               /\ IF Present(ref, key)
                  THEN /\ last'.outcome = "returns"
                       /\ last'.ret = Position(ref, key)
                       /\ ~last'.inserted
                  ELSE last'.outcome = "length_error"]_vars

\* C16, the case: insert has thrown on a full map whose buckets were due to
\* grow.
C16_Witness ==
    /\ last.op = "insert"
    /\ last.outcome = "length_error"
    /\ size(m_ht) = max_size(m_ht)
    /\ size(m_ht) >= m_ht.m_load_threshold

\* C17: max_load_factor(ml) with ml below 0.1 or above 0.95 is rejected and
\* changes nothing, so that in every state max_load_factor() is within 0.1
\* and 0.95.
C17_LoadFactorWithinLimits ==
    /\ m_ht.m_max_load_factor >= 10
    /\ m_ht.m_max_load_factor <= 95

\* C18: the map constructed with bucket_count 0 is an empty map of one
\* bucket.  On it find, count, equal_range, at, erase and unordered_erase
\* of any key read a bucket of the array and report that the key is not
\* there, and the keys inserted next are inserted and found.
C18_ZeroBuckets ==
    last.op = "ordered_map" /\ last.ret = 0 =>
        /\ bucket_count(m_ht) = 1
        /\ size(m_ht) = 0
        /\ \A key \in Keys :
               /\ bucket_for_hash(m_ht, hash_key(m_ht, key)) < bucket_count(m_ht)
               /\ find(m_ht, key, 0) = size(m_ht)
               /\ count_key(m_ht, key, 0) = 0
               /\ equal_range(m_ht, key, 0) = << size(m_ht), size(m_ht) >>
               /\ at(m_ht, key, 0).outcome = "out_of_range"
               /\ erase_key(m_ht, key, 0) = [t |-> m_ht, outcome |-> "returns", ret |-> 0]
               /\ unordered_erase(m_ht, key, 0) =
                      [t |-> m_ht, outcome |-> "returns", ret |-> 0]
        /\ \A key \in Keys, value \in Values : \A other \in Keys \ {key} :
               LET one == insert(m_ht, key, value, 0)
                   two == insert(one.t, other, value, 0)
               IN  /\ one.outcome = "returns" /\ one.inserted
                   /\ find(one.t, key, 0) = 0
                   /\ find(one.t, other, 0) = size(one.t)
                   /\ two.outcome = "returns" /\ two.inserted
                   /\ find(two.t, key, 0) = 0
                   /\ find(two.t, other, 0) = 1

\* C18, the case: a map has been constructed with bucket_count 0.
C18_Witness ==
    /\ last.op = "ordered_map" /\ last.ret = 0
    /\ bucket_count(m_ht) = 1 /\ m_ht.m_mask = 0
    /\ m_ht.m_load_threshold = 0

\* The calls that insert one value.
InsertsOne == {"insert", "emplace", "try_emplace", "operator[]", "insert_or_assign"}

\* C19: after reserve(n) with n >= size(), m_load_threshold is at least n;
\* and a call that inserts a value while size() is below m_load_threshold
\* and m_grow_on_next_insert is unset leaves bucket_count() and
\* m_load_threshold as they are.  So the inserts that follow reserve(n) do
\* not rehash until size() is n.
C19_ReserveThenInsert ==
    [][/\ \A count \in Counts :
              Made("reserve") /\ Reserve(count) /\ count >= size(m_ht) =>
                  /\ m_ht'.m_load_threshold >= count
                  /\ m_ht'.m_values = m_ht.m_values
       /\ (/\ last'.op \in InsertsOne
           /\ size(m_ht) < m_ht.m_load_threshold
           /\ ~m_ht.m_grow_on_next_insert) =>
              /\ bucket_count(m_ht') = bucket_count(m_ht)
              /\ m_ht'.m_load_threshold = m_ht.m_load_threshold
              /\ ~last'.rehashed]_vars

\* C19, the case: reserve has rehashed a map of one value and has left room
\* for the values still to insert.
C19_Witness ==
    /\ last.op = "reserve" /\ last.rehashed
    /\ size(m_ht) = 1
    /\ m_ht.m_load_threshold = MaxSize

\* The step has the table, the iterator and the outcome of the call r.
StepIs(r) ==
    /\ m_ht' = r.t
    /\ last'.ret = r.it
    /\ last'.outcome = r.outcome

\* C20: with any hint, a position of the map or end(), insert,
\* insert_or_assign and try_emplace leave the table and return the iterator
\* that the same call without the hint does; and when the value at the hint
\* has the key, insert and try_emplace leave the table as it was and return
\* the hint.  A call with a hint records the hint in pos.
C20_HintedAsUnhinted ==
    [][\A hint \in {last'.pos}, key \in Keys, value \in Values :
           /\ Made("insert_hint") /\ InsertHint(hint, key, value) =>
                  /\ StepIs(insert(m_ht, key, value, 0))
                  /\ HintHasKey(m_ht, hint, key) => m_ht' = m_ht /\ last'.ret = hint
           /\ Made("try_emplace_hint") /\ TryEmplaceHint(hint, key, value) =>
                  /\ StepIs(try_emplace(m_ht, key, value, 0))
                  /\ HintHasKey(m_ht, hint, key) => m_ht' = m_ht /\ last'.ret = hint
           /\ Made("insert_or_assign_hint") /\ InsertOrAssignHint(hint, key, value) =>
                  StepIs(insert_or_assign(m_ht, key, value, 0))]_vars

\* C20, the case: insert has been given a hint, not end(), whose value has
\* another key, and the key is in the map at another place.
C20_Witness ==
    /\ last.op = "insert_hint"
    /\ last.pos < size(m_ht)
    /\ last.ret < size(m_ht)
    /\ last.ret /= last.pos
    /\ ~last.inserted

\* C21: whatever the table and the chunk size, deserialize_chunked with
\* hash_compatible = false, reading into an empty table what
\* serialize_chunked has written, returns and leaves a table with the values
\* of the original in their order.
C21_RoundTripRehash ==
    [][\A chunk_size \in ChunkSizes :
           Made("deserialize_chunked") /\ Reload(chunk_size, FALSE) =>
               /\ last'.outcome = "returns"
               /\ m_ht'.m_values = m_ht.m_values]_vars

\* C22: whatever the table and the chunk size, deserialize_chunked with
\* hash_compatible = true, reading into an empty table what
\* serialize_chunked has written, returns and leaves a table with the
\* max_load_factor, the number of buckets, the values in their order and
\* the buckets, cell by cell, of the original.
C22_RoundTripFast ==
    [][\A chunk_size \in ChunkSizes :
           Made("deserialize_chunked") /\ Reload(chunk_size, TRUE) =>
               /\ last'.outcome = "returns"
               /\ m_ht'.m_max_load_factor = m_ht.m_max_load_factor
               /\ m_ht'.m_values = m_ht.m_values
               /\ m_ht'.m_buckets = m_ht.m_buckets]_vars

\* C23: deserialize_chunked of a stream whose HEADER has another version
\* than the protocol's throws, and adds no value to the table, be the
\* table empty or not.
C23_VersionIsChecked ==
    [][Made("load") /\ last'.key /= SERIALIZATION_PROTOCOL_VERSION =>
           /\ last'.outcome = "runtime_error"
           /\ m_ht'.m_values = m_ht.m_values]_vars

LongProbe(t) ==
    \E ibucket \in 0 .. bucket_count(t) - 1 :
        /\ ~empty(Bucket(t, ibucket))
        /\ dist_from_initial_bucket(t, ibucket) > REHASH_ON_HIGH_NB_PROBES__NPROBES

\* C25 as the specification states it: the insert that sets
\* m_grow_on_next_insert leaves bucket_count() as it found it and the index
\* sound, the next insert of a new key leaves twice the buckets and the flag
\* clear, and no call that has rehashed leaves the flag set.
C25_FlagDefersOneRehash ==
    [][Made("insert") =>
           /\ ~m_ht.m_grow_on_next_insert /\ m_ht'.m_grow_on_next_insert =>
                  bucket_count(m_ht') = bucket_count(m_ht) /\ IndexIsSound(m_ht')
           /\ m_ht.m_grow_on_next_insert /\ last'.inserted =>
                  /\ bucket_count(m_ht') = 2 * bucket_count(m_ht)
                  /\ ~m_ht'.m_grow_on_next_insert
           /\ last'.rehashed => ~m_ht'.m_grow_on_next_insert]_vars

\* C25: an insert made with the flag clear and size() below
\* m_load_threshold leaves bucket_count() as it found it, whether it sets
\* the flag or not; an insert of a new key made with the flag set leaves
\* twice the buckets; an insert that inserts nothing, and a rehash to the
\* bucket_count() the table has, leave the table and its flag as they
\* were, and a rehash to another bucket_count() leaves the flag clear; an
\* insert that leaves the flag set where it was clear, or after it
\* has rehashed, leaves a value further from its initial bucket than
\* REHASH_ON_HIGH_NB_PROBES__NPROBES and size() at or above
\* m_min_load_factor_rehash_threshold; and the index is sound after every
\* call.
C25_FlagGrowsAtNextInsert ==
    [][/\ Made("insert") =>
              /\ ~m_ht.m_grow_on_next_insert /\ size(m_ht) < m_ht.m_load_threshold =>
                     bucket_count(m_ht') = bucket_count(m_ht)
              /\ m_ht.m_grow_on_next_insert /\ last'.inserted =>
                     /\ bucket_count(m_ht') = 2 * bucket_count(m_ht)
                     /\ last'.rehashed
              /\ ~last'.inserted => m_ht' = m_ht
              /\ /\ m_ht'.m_grow_on_next_insert
                 /\ ~m_ht.m_grow_on_next_insert \/ last'.rehashed
                 => /\ last'.inserted
                    /\ LongProbe(m_ht')
                    /\ size(m_ht') >= m_ht'.m_min_load_factor_rehash_threshold
       /\ Made("rehash") =>
              IF last'.rehashed THEN ~m_ht'.m_grow_on_next_insert ELSE m_ht' = m_ht
       /\ Made("idle") => last'.sound]_vars

\* C25, the case: an insert of a new key has found the flag set, by the
\* insert before it, and size() below m_load_threshold, and has left twice
\* the buckets.
C25_Witness ==
    /\ last.op = "insert" /\ last.inserted /\ last.rehashed
    /\ bucket_count(m_ht) > 2 * REHASH_ON_HIGH_NB_PROBES__NPROBES
    /\ size(m_ht) - 1 < ((bucket_count(m_ht) \div 2) * m_ht.m_max_load_factor) \div 100

\* The calls with a hash of the caller's.
HashedCalls == {"find_hash", "count_hash", "at_hash", "erase_hash", "unordered_erase_hash"}

\* C26: a call with the key of a value of the map and a hash whose
\* truncation is not that of the key's hash does not find the key:
\* find(k, h) returns end(), count(k, h) returns 0, at(k, h) throws
\* std::out_of_range, erase(k, h) and unordered_erase(k, h) return 0, and the
\* table is left as it was.  A call with the hash of the key returns what
\* the call without a hash returns and leaves the table that call leaves.
C26_PrecalculatedHash ==
    [][last'.op \in HashedCalls =>
           \A key \in {last'.key}, hash \in {last'.pos} :
               /\ (/\ Present(ref, key)
                   /\ truncate_hash(hash) /= truncate_hash(hash_key(m_ht, key))) =>
                      /\ m_ht' = m_ht
                      /\ Made("find_hash") => last'.ret = size(m_ht)
                      /\ Made("at_hash") => last'.outcome = "out_of_range"
                      /\ ~Made("find_hash") /\ ~Made("at_hash") => last'.ret = 0
               /\ hash = hash_key(m_ht, key) =>
                      /\ Made("find_hash") => last'.ret = find(m_ht, key, 0)
                      /\ Made("count_hash") => last'.ret = count_key(m_ht, key, 0)
                      /\ Made("at_hash") =>
                             \E r \in {at(m_ht, key, 0)} :
                                 /\ m_ht' = r.t
                                 /\ last'.ret = r.value
                                 /\ last'.outcome = r.outcome
                      /\ Made("erase_hash") =>
                             \E r \in {erase_key(m_ht, key, 0)} :
                                 m_ht' = r.t /\ last'.ret = r.ret
                      /\ Made("unordered_erase_hash") =>
                             \E r \in {unordered_erase(m_ht, key, 0)} :
                                 m_ht' = r.t /\ last'.ret = r.ret]_vars

\* C26, the case: erase(k, h) has been given the key of a value that comes
\* after another in the map, with the hash of another key, and has returned
\* 0.
C26_Witness ==
    /\ last.op = "erase_hash"
    /\ last.ret = 0
    /\ Present(ref, last.key)
    /\ Position(ref, last.key) > 0
    /\ truncate_hash(last.pos) /= truncate_hash(hash_key(m_ht, last.key))

C28_InitialBucketFromTruncatedHash ==
    \A ibucket \in 0 .. bucket_count(m_ht) - 1 :
        LET bucket == Bucket(m_ht, ibucket)
        IN  ~empty(bucket) /\ bucket.m_index < size(m_ht) =>
                bucket_for_hash(m_ht, bucket.m_hash) =
                    bucket_for_hash(m_ht, hash_key(m_ht, m_ht.m_values[bucket.m_index + 1].first))

\* The words of the stream from pos on are framed chunks, each a kind, the
\* length of its payload in bytes and the payload: after a chunk of the kind
\* before come the chunks of the same kind, if it is a kind of data, or of
\* the next kinds, and the END chunk is the last of the stream.
RECURSIVE frames(_, _, _)
frames(stream, pos, before) ==
    /\ pos + 1 <= Len(stream)
    /\ LET kind == stream[pos]
           words == stream[pos + 1] \div 4
       IN  /\ kind \in {HEADER, DATA_ELEMENTS, DATA_BUCKETS, END}
           /\ IF kind = HEADER THEN before = 0 ELSE before /= 0 /\ kind >= before
           /\ stream[pos + 1] % 4 = 0
           /\ pos + 1 + words <= Len(stream)
           /\ IF kind = END THEN pos + 1 + words = Len(stream)
              ELSE frames(stream, pos + 2 + words, kind)

\* C29: what serialize_chunked writes is a sequence of framed chunks, HEADER,
\* DATA_ELEMENTS, DATA_BUCKETS, END in this order, and deserialize_chunked
\* reads it to its END chunk and returns.
C29_StreamIsFramed ==
    [][\A chunk_size \in {last'.pos} :
           Made("serialize_chunked") /\ Serialize(chunk_size) =>
               /\ frames(serialize_chunked(m_ht, chunk_size), 1, 0)
               /\ \A hash_compatible \in BOOLEAN :
                      deserialize_chunked(receiver(m_ht), serialize_chunked(m_ht, chunk_size),
                                          hash_compatible).outcome = "returns"]_vars

\* The call of deserialize_chunked on an empty table that reads the chunks
\* of the first values of the source, no more, and stops at an END chunk.
stopped(values, per_chunk, hash_compatible) ==
    deserialize_chunked(receiver(m_ht),
                        framed(source(m_ht), SERIALIZATION_PROTOCOL_VERSION, 0, values,
                               per_chunk),
                        hash_compatible)

\* C30: a table that deserialize_chunked has filled with the chunks of the
\* first values, and that is not empty, is resumed by a call with a stream
\* of the HEADER and of chunks that follow: whatever the sizes of the chunks
\* of either call, the table is then the table of one call that reads all
\* these chunks into an empty table, with the same values in the same order
\* and none twice, in either mode.  With the last chunks it is the table of
\* the deserialization that was not interrupted.
C30_ResumedAsUninterrupted ==
    [][\A first \in {last'.pos}, last_ \in {last'.ret}, hash_compatible \in {last'.inserted} :
           \A per_chunk \in 1 .. 2, before \in 1 .. 2 :
               (/\ Made("load")
                /\ last'.key = SERIALIZATION_PROTOCOL_VERSION
                /\ first >= 1 /\ first < size(source(m_ht))
                /\ m_ht = stopped(first, before, hash_compatible).t
                /\ Load(SERIALIZATION_PROTOCOL_VERSION, first, last_, per_chunk,
                        hash_compatible)) =>
                   /\ last'.outcome = "returns"
                   /\ \A whole \in 1 .. 2 : m_ht' = stopped(last_, whole, hash_compatible).t
                   /\ m_ht'.m_values = SubSeq(source(m_ht).m_values, 1, last_)]_vars

\* C30, the case: a table filled with the first value in the mode of
\* compatible hashes has been resumed with the chunks of the other values
\* and of the buckets, and is the table that was serialized.
C30_Witness ==
    /\ last.op = "load" /\ last.outcome = "returns"
    /\ last.key = SERIALIZATION_PROTOCOL_VERSION
    /\ last.inserted
    /\ last.pos = 1
    /\ last.ret = NumKeys
    /\ m_ht.m_values = source(m_ht).m_values
    /\ m_ht.m_buckets = source(m_ht).m_buckets

\* C31: a deserialize_chunked with hash_compatible that reads into an empty
\* table and returns leaves as many values as the HEADER announces, as many
\* buckets as it announces, and in every bucket in use a position of
\* m_values; the stream is that of the source, whose size() and
\* bucket_count() the HEADER holds.
C31_FastLoadIsValidated ==
    [][/\ Made("load") /\ last'.inserted /\ last'.outcome = "returns"
       /\ size(m_ht) = 0
       => /\ size(m_ht') = size(source(m_ht))
          /\ bucket_count(m_ht') = bucket_count(source(m_ht))
          /\ \A i \in 1 .. bucket_count(m_ht') :
                 empty(m_ht'.m_buckets[i]) \/ m_ht'.m_buckets[i].m_index < size(m_ht')]_vars

(***************************************************************************)
(* ordered_hash_expiry with lru_expiry_policy.  In the specifications of   *)
(* the classes built on the table, ref holds the members the class adds to *)
(* the table; here m_expiry_policy: m_max_size, m_lru_list (front first)   *)
(* and the keys of m_key_to_iter, whose iterators are the places of these  *)
(* keys in the list.                                                       *)
(***************************************************************************)
lru_expiry_policy(capacity) ==
    [m_max_size |-> capacity, m_lru_list |-> << >>, m_key_to_iter |-> {}]

\* m_lru_list.erase(it->second)
lru_list_erase(list, key) == SelectSeq(list, LAMBDA k : k /= key)

lru_on_insert(p, key) ==
    LET added == [p EXCEPT !.m_lru_list = << key >> \o lru_list_erase(@, key),
                           !.m_key_to_iter = @ \cup {key}]
    IN  IF Len(added.m_lru_list) > p.m_max_size
        THEN [added EXCEPT !.m_key_to_iter = @ \ {added.m_lru_list[Len(added.m_lru_list)]},
                           !.m_lru_list = SubSeq(@, 1, Len(@) - 1)]
        ELSE added

lru_on_access(p, key) ==
    IF key \in p.m_key_to_iter
    THEN [p EXCEPT !.m_lru_list = << key >> \o lru_list_erase(@, key)]
    ELSE p

lru_on_erase(p, key) ==
    IF key \in p.m_key_to_iter
    THEN [p EXCEPT !.m_lru_list = lru_list_erase(@, key), !.m_key_to_iter = @ \ {key}]
    ELSE p

\* next_expired() is the back of the list, or nullptr: no key.
lru_has_expired(p) == Len(p.m_lru_list) > p.m_max_size

\* expire_stale_entries(): the table and the policy after the loop.
RECURSIVE expire_stale_entries(_, _)
expire_stale_entries(t, p) ==
    IF ~lru_has_expired(p) THEN [t |-> t, p |-> p]
    ELSE expire_stale_entries(erase_key(t, p.m_lru_list[Len(p.m_lru_list)], 0).t,
                              lru_on_erase(p, p.m_lru_list[Len(p.m_lru_list)]))

\* The capacities of the policy.
Capacities == 1 .. MaxSize - 1

InitExpiry ==
    \E count \in 1 .. MaxBucketCount, capacity \in Capacities :
        /\ m_ht = ordered_hash(count, "neighbours", MaxSize, DEFAULT_MAX_LOAD_FACTOR)
        /\ ref = lru_expiry_policy(capacity)
        /\ last = Call("ordered_map", 0, 0, count, FALSE, "returns", FALSE)

\* ordered_hash_expiry::insert(value)
ExpiryInsert(key, value) ==
    /\ Probes
    /\ \E s \in {expire_stale_entries(m_ht, ref)} :
        \E r \in {insert(s.t, key, value, 0)} :
            /\ Followed(r)
            /\ m_ht' = r.t
            /\ ref' = IF r.inserted THEN lru_on_insert(s.p, key) ELSE s.p
            /\ last' = Call("insert", key, 0, r.it, r.inserted, r.outcome,
                            Rehashed(m_ht, r.t))

\* ordered_hash_expiry::find(key), m_auto_expire_on_access as constructed.
ExpiryFind(key) ==
    /\ Probes
    /\ \E s \in {expire_stale_entries(m_ht, ref)} :
           /\ m_ht' = s.t
           /\ ref' = IF find(s.t, key, 0) /= size(s.t) THEN lru_on_access(s.p, key) ELSE s.p
           /\ last' = Call("find", key, 0, find(s.t, key, 0), FALSE, "returns", FALSE)

\* ordered_hash_expiry::erase(key)
ExpiryErase(key) ==
    /\ Probes
    /\ \E r \in {erase_key(m_ht, key, 0)} :
           /\ Followed(r)
           /\ m_ht' = r.t
           /\ ref' = IF r.ret > 0 THEN lru_on_erase(ref, key) ELSE ref
           /\ last' = Call("erase", key, 0, r.ret, FALSE, r.outcome, FALSE)

NextExpiry ==
    \/ \E key \in Keys, value \in Values : ExpiryInsert(key, value)
    \/ \E key \in Keys : ExpiryFind(key)
    \/ \E key \in Keys : ExpiryErase(key)
    \/ Return

\* The map with an LRU policy under insert, find and erase.
SpecExpiry == InitExpiry /\ [][NextExpiry]_vars

\* C32: after every insert the table holds at most m_max_size values, and
\* the keys the policy tracks are the keys of the table.
C32_LruBoundsTheTable ==
    [][Made("insert") =>
           /\ size(m_ht') <= ref'.m_max_size
           /\ ref'.m_key_to_iter =
                  {m_ht'.m_values[i].first : i \in 1 .. size(m_ht')}]_vars

(***************************************************************************)
(* ordered_hash_sorted: ref holds m_sorted_indices.  The class hides       *)
(* insert, emplace, erase and clear of the table behind its own, which     *)
(* call clear_sorted() first; try_emplace, unordered_erase and pop_back    *)
(* are the table's own, which the class inherits as they are.              *)
(***************************************************************************)
\* sort(comp) with the order of the keys: the positions left, least key
\* first.
RECURSIVE sort_indices(_, _)
sort_indices(t, left) ==
    IF left = {} THEN << >>
    ELSE LET least == CHOOSE a \in left :
                          \A b \in left : t.m_values[a + 1].first <= t.m_values[b + 1].first
         IN  << least >> \o sort_indices(t, left \ {least})

is_sorted(m_sorted_indices) == Len(m_sorted_indices) /= 0

InitSorted ==
    \E count \in 1 .. MaxBucketCount :
        /\ m_ht = ordered_hash(count, "neighbours", MaxSize, DEFAULT_MAX_LOAD_FACTOR)
        /\ ref = << >>
        /\ last = Call("ordered_map", 0, 0, count, FALSE, "returns", FALSE)

\* sort_by_key()
SortByKey ==
    /\ Callable
    /\ ref' = sort_indices(m_ht, 0 .. size(m_ht) - 1)
    /\ m_ht' = m_ht
    /\ last' = Call("sort", 0, 0, 0, FALSE, "returns", FALSE)

\* ordered_hash_sorted::insert(value)
SortedInsert(key, value) ==
    /\ Probes
    /\ \E r \in {insert(m_ht, key, value, 0)} :
           /\ Followed(r)
           /\ m_ht' = r.t
           /\ ref' = << >>
           /\ last' = Call("insert", key, 0, r.it, r.inserted, r.outcome, Rehashed(m_ht, r.t))

\* ordered_hash_sorted::erase(key)
SortedErase(key) ==
    /\ Probes
    /\ \E r \in {erase_key(m_ht, key, 0)} :
           /\ Followed(r)
           /\ m_ht' = r.t
           /\ ref' = << >>
           /\ last' = Call("erase", key, 0, r.ret, FALSE, r.outcome, FALSE)

\* ordered_hash_sorted::clear()
SortedClear ==
    /\ Callable
    /\ m_ht' = clear(m_ht)
    /\ ref' = << >>
    /\ last' = Call("clear", 0, 0, 0, FALSE, "returns", FALSE)

\* ordered_hash::try_emplace(key, value) of an ordered_hash_sorted
SortedTryEmplace(key, value) ==
    /\ Probes
    /\ \E r \in {try_emplace(m_ht, key, value, 0)} :
           /\ Followed(r)
           /\ m_ht' = r.t
           /\ ref' = ref
           /\ last' = Call("try_emplace", key, 0, r.it, r.inserted, r.outcome,
                           Rehashed(m_ht, r.t))

\* ordered_hash::unordered_erase(key) of an ordered_hash_sorted
SortedUnorderedErase(key) ==
    /\ Probes
    /\ \E r \in {unordered_erase(m_ht, key, 0)} :
           /\ Followed(r)
           /\ m_ht' = r.t
           /\ ref' = ref
           /\ last' = Call("unordered_erase", key, 0, r.ret, FALSE, r.outcome, FALSE)

\* ordered_hash::pop_back() of an ordered_hash_sorted
SortedPopBack ==
    /\ Probes
    /\ size(m_ht) > 0
    /\ \E r \in {pop_back(m_ht, 0)} :
           /\ Followed(r)
           /\ m_ht' = r.t
           /\ ref' = ref
           /\ last' = Call("pop_back", 0, 0, 0, FALSE, r.outcome, FALSE)

NextSorted ==
    \/ SortByKey
    \/ \E key \in Keys, value \in Values : SortedInsert(key, value)
    \/ \E key \in Keys : SortedErase(key)
    \/ SortedClear
    \/ \E key \in Keys, value \in Values : SortedTryEmplace(key, value)
    \/ \E key \in Keys : SortedUnorderedErase(key)
    \/ SortedPopBack
    \/ Return

\* The map with a sorted view under the calls of the class and of the table.
SpecSorted == InitSorted /\ [][NextSorted]_vars

\* C33: whenever is_sorted() holds, m_sorted_indices holds every position of
\* m_values once and nothing else.
C33_SortedViewIsCurrent ==
    is_sorted(ref) =>
        /\ Len(ref) = size(m_ht)
        /\ {ref[i] : i \in 1 .. Len(ref)} = 0 .. size(m_ht) - 1

\* The layout of the buckets: a bucket in use at probe distance d > 0 comes
\* after a bucket in use at distance d - 1 or more.
RobinHoodLayout(t) ==
    \A ibucket \in 0 .. bucket_count(t) - 1 :
        LET after == next_bucket(t, ibucket)
        IN  ~empty(Bucket(t, after)) /\ dist_from_initial_bucket(t, after) > 0
                => /\ ~empty(Bucket(t, ibucket))
                   /\ dist_from_initial_bucket(t, ibucket) >=
                          dist_from_initial_bucket(t, after) - 1

\* The probe of find_key reaches the value at `index`: some step of the
\* probe chain of its key holds the index, and up to that step no bucket is
\* at a distance less than the steps made.
ProbeReaches(t, index) ==
    LET key == t.m_values[index + 1].first
    IN  \E step \in ProbeChain(t, key) :
            /\ Bucket(t, ChainBucket(t, key, step)).m_index = index
            /\ \A before \in 0 .. step :
                   before <= dist_from_initial_bucket(t, ChainBucket(t, key, before))

\* C34: in every state a bucket in use at distance d > 0 comes after a
\* bucket in use at distance d - 1 or more, and every value of m_values is
\* reached from the initial bucket of its key before an empty bucket and
\* before find_key's early exit.
C34_RobinHoodLayout ==
    /\ RobinHoodLayout(m_ht)
    /\ \A index \in 0 .. size(m_ht) - 1 : ProbeReaches(m_ht, index)

\* insert(value) on a table whose index erase(first, last) has left broken,
\* every bucket in use still holding a position of m_values: the call reads
\* nothing past the end and runs as insert_impl is written.
InsertOnBrokenIndex(key, value) ==
    /\ Idle /\ ~last.sound
    /\ bucket_count(m_ht) > 0
    /\ Garbage(m_ht) = {0}
    /\ \E r \in {insert(m_ht, key, value, 0)} :
           /\ Followed(r)
           /\ m_ht' = r.t
           /\ ref' = IF r.outcome = "returns" THEN AbsInsert(ref, key, value) ELSE ref
           /\ last' = Call("insert", 0, 0, r.it, r.inserted, r.outcome, Rehashed(m_ht, r.t))

NextBroken ==
    \/ CallCore
    \/ CallRange
    \/ \E key \in Keys, value \in Values : InsertOnBrokenIndex(key, value)
    \/ Return

\* The map under every call, and under the inserts that follow a broken
\* index.
SpecBroken == Init /\ [][NextBroken]_vars

\* C35: in every state no two values of m_values have the same key.
C35_NoDuplicateKeys ==
    \A i \in 1 .. size(m_ht) : \A j \in 1 .. size(m_ht) :
        m_ht.m_values[i].first = m_ht.m_values[j].first => i = j

\* The loops of the calls on t end: the probes of insert, of the two erases
\* and their scans of the buckets, and the loops of rehash.
LoopsEnd(t) ==
    /\ \A key \in Keys :
           /\ insert(t, key, 0, 0).outcome /= "diverges"
           /\ erase_key(t, key, 0).outcome /= "diverges"
           /\ unordered_erase(t, key, 0).outcome /= "diverges"
    /\ \A count \in Counts : rehash_ends(t, count)

\* C36: max_load_factor being set to 0.5 and 0.9 alone, in every state some
\* bucket is empty, and the loops of every call made from it end.
C36_AnEmptyBucket ==
    /\ HasEmptyBucket(m_ht)
    /\ Idle /\ bucket_count(m_ht) > 0 => LoopsEnd(m_ht)

\* The load factors at the ends of the range 0.1 .. 0.95.
LoadFactorsWithin == {10, 95}

NextWithin == CallCore \/ (\E ml \in LoadFactorsWithin : MaxLoadFactor(ml)) \/ Return

\* The map under every call but the erase of a range, max_load_factor(ml)
\* being called with 0.1, 0.5, 0.9 and 0.95.
SpecWithin == Init /\ [][NextWithin]_vars

(***************************************************************************)
(* ordered_map_thread_safe: two maps a and b, each a table m_map behind a  *)
(* std::shared_mutex m_mutex, and two threads, each in one call that locks *)
(* both.  m_ht is the m_map of a; ref holds the m_map of b, the two        *)
(* mutexes, and of each thread the map it calls on, the call and the place *)
(* it has reached in it.                                                   *)
(***************************************************************************)
Threads == {1, 2}

Wrappers == {"a", "b"}

\* swap(other), operator=(const&) and operator=(&&).
LockingCalls == {"swap", "operator=(const&)", "operator=(&&)"}

\* A std::shared_mutex nobody holds: `unique` is the thread that holds it in
\* exclusive mode, 0 for none, `shared` the threads that hold it in shared
\* mode.
shared_mutex == [unique |-> 0, shared |-> {}]

\* lock() and lock_shared() return when the mutex can be taken in that mode.
can_lock(mutex) == mutex.unique = 0 /\ mutex.shared = {}

can_lock_shared(mutex) == mutex.unique = 0

unlock(mutex, thread) ==
    [unique |-> IF mutex.unique = thread THEN 0 ELSE mutex.unique,
     shared |-> mutex.shared \ {thread}]

Other(wrapper) == IF wrapper = "a" THEN "b" ELSE "a"

InitThreads ==
    /\ \E ra \in Ranges, rb \in Ranges, this2 \in Wrappers,
          call1 \in LockingCalls, call2 \in LockingCalls :
           /\ m_ht = insert_range(ordered_hash(2, "neighbours", MaxSize,
                                               DEFAULT_MAX_LOAD_FACTOR), ra, 0).t
           /\ ref = [m_map |-> insert_range(ordered_hash(2, "neighbours", MaxSize,
                                                         DEFAULT_MAX_LOAD_FACTOR), rb, 0).t,
                     m_mutex |-> [w \in Wrappers |-> shared_mutex],
                     this |-> << "a", this2 >>,
                     call |-> << call1, call2 >>,
                     pc |-> << "lock_this", "lock_this" >>]
    /\ last = Call("ordered_map_thread_safe", 0, 0, 0, FALSE, "returns", FALSE)

\* std::unique_lock<Mutex> lock_this(m_mutex)
LockThis(thread) ==
    /\ ref.pc[thread] = "lock_this"
    /\ can_lock(ref.m_mutex[ref.this[thread]])
    /\ ref' = [ref EXCEPT !.m_mutex[ref.this[thread]].unique = thread,
                          !.pc[thread] = "lock_other"]
    /\ m_ht' = m_ht
    /\ last' = Call(ref.call[thread], 0, thread, 0, FALSE, "lock_this", FALSE)

\* std::unique_lock<Mutex> lock_other(other.m_mutex), of swap and
\* operator=(&&)
LockOther(thread) ==
    /\ ref.pc[thread] = "lock_other"
    /\ ref.call[thread] /= "operator=(const&)"
    /\ can_lock(ref.m_mutex[Other(ref.this[thread])])
    /\ ref' = [ref EXCEPT !.m_mutex[Other(ref.this[thread])].unique = thread,
                          !.pc[thread] = "locked"]
    /\ m_ht' = m_ht
    /\ last' = Call(ref.call[thread], 0, thread, 0, FALSE, "lock_other", FALSE)

\* std::shared_lock<Mutex> lock_other(other.m_mutex), of operator=(const&)
LockOtherShared(thread) ==
    /\ ref.pc[thread] = "lock_other"
    /\ ref.call[thread] = "operator=(const&)"
    /\ can_lock_shared(ref.m_mutex[Other(ref.this[thread])])
    /\ ref' = [ref EXCEPT !.m_mutex[Other(ref.this[thread])].shared = @ \cup {thread},
                          !.pc[thread] = "locked"]
    /\ m_ht' = m_ht
    /\ last' = Call(ref.call[thread], 0, thread, 0, FALSE, "lock_other", FALSE)

\* The two maps after the statement the call makes under its locks: m_map
\* of `this` and of `other` swapped, copied or moved.
locked_statement(call, mine, theirs) ==
    CASE call = "swap" -> [mine |-> theirs, theirs |-> mine]
      [] call = "operator=(const&)" -> [mine |-> theirs, theirs |-> theirs]
      [] call = "operator=(&&)" -> [mine |-> theirs, theirs |-> moved_from(theirs)]

\* The statement under the two locks and the end of the block, where both
\* locks are released.
Unlock(thread) ==
    /\ ref.pc[thread] = "locked"
    /\ \E after \in {IF ref.this[thread] = "a"
                     THEN locked_statement(ref.call[thread], m_ht, ref.m_map)
                     ELSE locked_statement(ref.call[thread], ref.m_map, m_ht)} :
           /\ m_ht' = IF ref.this[thread] = "a" THEN after.mine ELSE after.theirs
           /\ ref' = [ref EXCEPT
                         !.m_map = IF ref.this[thread] = "a" THEN after.theirs ELSE after.mine,
                         !.m_mutex = [w \in Wrappers |-> unlock(ref.m_mutex[w], thread)],
                         !.pc[thread] = "returned"]
    /\ last' = Call(ref.call[thread], 0, thread, 0, FALSE, "returns", FALSE)

NextThreads ==
    \/ \E thread \in Threads : LockThis(thread)
    \/ \E thread \in Threads : LockOther(thread)
    \/ \E thread \in Threads : LockOtherShared(thread)
    \/ \E thread \in Threads : Unlock(thread)

\* Two threads, each in a call that locks two maps.
SpecThreads == InitThreads /\ [][NextThreads]_vars

\* The thread is in its call and can take its next step.
CanStep(thread) ==
    \/ ref.pc[thread] = "lock_this" /\ can_lock(ref.m_mutex[ref.this[thread]])
    \/ /\ ref.pc[thread] = "lock_other"
       /\ IF ref.call[thread] = "operator=(const&)"
          THEN can_lock_shared(ref.m_mutex[Other(ref.this[thread])])
          ELSE can_lock(ref.m_mutex[Other(ref.this[thread])])
    \/ ref.pc[thread] = "locked"

\* C37: two threads being in a.swap(b) and b.swap(a), or in a = b and
\* b = a, while a call has not returned some thread can take a step: the
\* calls do not block one another for good.
C37_LockingCallsReturn ==
    (\E thread \in Threads : ref.pc[thread] /= "returned")
        => \E thread \in Threads : CanStep(thread)

(***************************************************************************)
(* ordered_hash_batch: insert_batch(first, last).                          *)
(***************************************************************************)
\* What std::sort with compare_precomputed_hash may leave of the range: the
\* pairs in any order in which the hashes of the keys never fall.  The sort
\* is not stable, pairs of one hash come out in any order.
sorted_by_hash(t, range) ==
    {[i \in 1 .. Len(range) |-> range[order[i]]] :
        order \in {p \in [1 .. Len(range) -> 1 .. Len(range)] :
                      /\ \A i \in 1 .. Len(range) : \E j \in 1 .. Len(range) : p[j] = i
                      /\ \A i \in 1 .. Len(range) : \A j \in i .. Len(range) :
                             hash_key(t, range[p[i]].first) <= hash_key(t, range[p[j]].first)}}

\* insert_batch after the sort: reserve(size() + count) and the loop of
\* inserts over the precomputed pairs.
insert_batch(t, precomputed, garbage) ==
    LET count == Len(precomputed)
    IN  IF count = 0 THEN [t |-> t, outcome |-> "returns", done |-> 0]
        ELSE IF ~reserve_ends(t, size(t) + count)
        THEN [t |-> t, outcome |-> "diverges", done |-> 0]
        ELSE insert_each(reserve(t, size(t) + count), precomputed, 1, garbage)

InsertBatch(range) ==
    /\ Probes
    /\ \E precomputed \in sorted_by_hash(m_ht, range) :
        \E r \in {insert_batch(m_ht, precomputed, 0)} :
            /\ Followed(r)
            /\ m_ht' = r.t
            /\ ref' = AbsInsertAll(ref, SubSeq(precomputed, 1, r.done), 1)
            /\ last' = Call("insert_batch", 0, 0, size(r.t) - size(m_ht), FALSE, r.outcome,
                            Rehashed(m_ht, r.t))

NextBatch ==
    \/ \E range \in Ranges : InsertBatch(range)
    \/ \E key \in Keys, value \in Values : Insert(key, value)
    \/ \E key \in Keys : EraseKey(key)
    \/ Return

\* The map under insert_batch, insert and erase.
SpecBatch == Init /\ [][NextBatch]_vars

\* C38: insert_batch(first, last) leaves in m_values what insert of each
\* pair of the range in its order leaves: the same values in the same
\* order, of two pairs of one key the first.
C38_BatchAsInsertOfEach ==
    [][\A range \in Ranges :
           Made("insert_batch") /\ InsertBatch(range) /\ last'.outcome = "returns"
               => m_ht'.m_values = insert_each(m_ht, range, 1, 0).t.m_values]_vars

====
